---- MODULE Spec2Model ----
(***************************************************************************)
(* A model of eprotoc: the error-tolerant parser (src/src/parser.ts), the  *)
(* semantic analyzer (src/src/analyzer.ts, the SemanticAnalyzer that keeps *)
(* a flat `definitions` array), the diagnostic collection                  *)
(* (src/src/diagnostic.ts), the language-server document load              *)
(* (src/src/lsp/diagnostics.ts), the command line driver                   *)
(* (src/src/index.ts) and the GenIR code generator (src/src/codegen).      *)
(*                                                                         *)
(* Conventions.  Arrays are 1-based sequences, so Parser.index 0 is index  *)
(* 1 here.  `undefined` is the token/type Undefined.  The symbols          *)
(* BUILTIN_PACKAGE and UNKNOWN_PACKAGE are the strings "<builtin>" and     *)
(* "<unknown>", which no package declaration can spell.  A JavaScript      *)
(* object identity that the code compares with === is the field `ref`,     *)
(* allocated from the counter `heap`.                                      *)
(***************************************************************************)
EXTENDS Integers, Sequences, FiniteSets, TLC

VARIABLES
  \* ---- analyzer / language server / command line ----
  definitions,   \* SemanticAnalyzer.definitions
  items,         \* DiagnosticCollection.items
  heap,          \* number of definition and type objects allocated so far
  threw,         \* "", or how the last handler ended: the phase a TypeError
                 \* left uncaught, or "exit" for process.exit
  docs,          \* per file, which content was last delivered (0: none)
  last,          \* what the last operation was, and on which file
  ops,           \* number of operations performed
  \* ---- parser run (one parse() call, one loop iteration per step) ----
  ptoks,         \* Parser.tokens
  pst,           \* Parser.index, diagnostics raised, fatal exit taken
  ppc,           \* where parse() is: the loop it is in, or done / exit
  pnodes,        \* the nodes array of parse()
  pcur,          \* the node whose body loop is running
  pbefore,       \* index at the start of the last completed loop iteration
  \* ---- one use of an emitted serialize / deserialize pair ----
  codec,         \* the type, the strategy, the value, the bytes, the result
  \* ---- one tokenize() call ----
  tz,            \* the source text, the tokens returned, where it stopped
  \* ---- the language server ----
  lsp            \* what the client was sent per file, the handler that is
                 \* running and its position, the disk reads in flight

avars == <<definitions, items, heap, threw, docs, last, ops>>
pvars == <<ptoks, pst, ppc, pnodes, pcur, pbefore>>
vars == <<definitions, items, heap, threw, docs, last, ops,
          ptoks, pst, ppc, pnodes, pcur, pbefore, codec, tz, lsp>>

(***************************************************************************)
(* Tokens (src/src/tokenizer.ts).  `num` is the value of a numeric         *)
(* literal, `value` the value of every other token; `at` stands for the    *)
(* token's range.                                                          *)
(***************************************************************************)
Tok(tokenType, value, num) ==
  [tokenType |-> tokenType, value |-> value, num |-> num, file |-> "", at |-> 0]

Kw(v) == Tok("keyword", v, 0)
Sym(v) == Tok("symbol", v, 0)
Id(v) == Tok("identifier", v, 0)
Num(n) == Tok("numeric-literal", "", n)
Str(v) == Tok("string-literal", v, 0)
Unk(v) == Tok("unknown", v, 0)

Undefined == Tok("undefined", "", 0)
ERROR_TOKEN == Tok("unknown", "", 0)

eofToken(file, at) ==
  [tokenType |-> "EOF", value |-> "", num |-> 0, file |-> file, at |-> at]

\* The token list tokenize() returns for a text whose tokens are `kinds`:
\* every token carries its file and place, and an EOF token is pushed last.
Located(file, kinds) ==
  [i \in 1..(Len(kinds) + 1) |->
     IF i <= Len(kinds)
       THEN [kinds[i] EXCEPT !.file = file, !.at = i]
       ELSE eofToken(file, i)]

(***************************************************************************)
(* Diagnostics (src/src/diagnostic.ts).                                    *)
(***************************************************************************)
Diag(token, scope, message) ==
  [file |-> token.file, at |-> token.at, scope |-> scope, message |-> message]

\* DiagnosticCollection.error: items.push(diagnostic)
error(its, token, scope, message) == Append(its, Diag(token, scope, message))

\* The scope each kind of diagnostic is raised with.
ScopeOf(kind) ==
  IF kind \in {"unknown-type", "arity-mismatch", "redefinition"}
    THEN "global" ELSE "local"

\* the filter of an earlier revision: `i.item.file === file`
removeFileDiagnosticsKeepsFile(i, file) == i.file = file

\* `i.token.file !== file && i.scope === "local"`
removeFileDiagnosticsKeeps(i, file) == i.file # file /\ i.scope = "local"

RECURSIVE FilterSeq(_, _, _)
FilterSeq(s, file, acc) ==
  IF s = <<>> THEN acc
  ELSE FilterSeq(Tail(s), file,
         IF removeFileDiagnosticsKeeps(Head(s), file)
           THEN Append(acc, Head(s)) ELSE acc)

removeFileDiagnostics(its, file) == FilterSeq(its, file, <<>>)

(***************************************************************************)
(* AST node constructors (src/src/parser.ts, lines 392-602).               *)
(***************************************************************************)
Or(tok, dflt) == IF tok.tokenType = "undefined" THEN dflt ELSE tok

identifierNode(tokens, isCompleteGiven) ==
  [tokens |-> tokens,
   isComplete |-> IF isCompleteGiven = FALSE THEN FALSE ELSE Len(tokens) # 0]

AllComplete(args) == \A i \in 1..Len(args) : args[i].isComplete

typeNode(identifier, args) ==
  [identifier |-> identifier, args |-> args,
   isComplete |-> identifier.isComplete /\ (Len(args) = 0 \/ AllComplete(args))]

EmptyType == typeNode(identifierNode(<<>>, TRUE), <<>>)

NoOrdinal == [present |-> FALSE, equals |-> Undefined, value |-> Undefined]

messageFieldNode(optional, type, name, ordinal) ==
  LET nm == Or(name, ERROR_TOKEN)
      ord == IF ordinal.present
               THEN [ordinal EXCEPT !.value = Or(ordinal.value, ERROR_TOKEN)]
               ELSE ordinal
  IN [optional |-> optional, type |-> type, name |-> nm, ordinal |-> ord,
      isComplete |-> type.isComplete /\ nm.tokenType # "unknown"
                     /\ (~ord.present \/ ord.value.tokenType # "unknown")]

messageNode(keyword, type, fields) ==
  [kind |-> "message", keyword |-> keyword, type |-> type, fields |-> fields,
   isComplete |-> type.isComplete]

NoValue == [present |-> FALSE, equals |-> Undefined, value |-> Undefined]

enumFieldNode(name, value) ==
  LET nm == Or(name, ERROR_TOKEN)
      val == IF value.present
               THEN [value EXCEPT !.equals = Or(value.equals, ERROR_TOKEN),
                                  !.value = Or(value.value, ERROR_TOKEN)]
               ELSE value
  IN [name |-> nm, value |-> val,
      isComplete |-> nm.tokenType # "unknown"
                     /\ (~val.present \/ val.value.tokenType # "unknown")]

\* `node.name && node.name.tokenType !== "unknown"`
Named(name) == name.tokenType # "undefined" /\ name.tokenType # "unknown"

enumNode(keyword, name, fields) ==
  [kind |-> "enum", keyword |-> keyword, name |-> name, fields |-> fields,
   isComplete |-> Named(name)]

stringEnumNode(stringKeyword, enumKeyword, name, fields) ==
  [kind |-> "string-enum", stringKeyword |-> stringKeyword,
   enumKeyword |-> Or(enumKeyword, ERROR_TOKEN), name |-> name,
   fields |-> fields, isComplete |-> Named(name)]

rpcNode(rpcKeyword, name, requestStream, requestType, returnsKeyword, responseStream, responseType) ==
  LET nm == Or(name, ERROR_TOKEN)
  IN [rpcKeyword |-> rpcKeyword, name |-> nm,
      requestStream |-> requestStream, requestType |-> requestType,
      returnsKeyword |-> Or(returnsKeyword, ERROR_TOKEN),
      responseStream |-> responseStream, responseType |-> responseType,
      isComplete |-> nm.tokenType # "unknown" /\ requestType.isComplete
                     /\ responseType.isComplete]

serviceNode(keyword, name, rpcs) ==
  [kind |-> "service", keyword |-> keyword, name |-> name, rpcs |-> rpcs,
   isComplete |-> Named(name)]

packageNode(keyword, identifier) ==
  [kind |-> "package", keyword |-> keyword, identifier |-> identifier,
   isComplete |-> identifier.isComplete]

(***************************************************************************)
(* The parser (src/src/parser.ts, class Parser).  A parser state p is      *)
(* [index, diags, exited]: Parser.index, the diagnostics raised so far and *)
(* whether step() took the fatal exit.                                     *)
(***************************************************************************)
NewParser == [index |-> 1, diags |-> <<>>, exited |-> FALSE]

current(toks, p) == toks[p.index]

\* Parser.step: the fatal exit on EOF, otherwise index++
step(toks, p) ==
  IF current(toks, p).tokenType = "EOF"
    THEN [p EXCEPT !.exited = TRUE]
    ELSE [p EXCEPT !.index = @ + 1]

\* afterToken(current): the end of the current token, in its file
afterToken(tok) == tok

perror(p, token, message) ==
  [p EXCEPT !.diags = error(@, token, "local", message)]

currentIs(toks, p, tokenType, tokenValue) ==
  current(toks, p).tokenType = tokenType /\ current(toks, p).value = tokenValue

expect(toks, p, tokenType, tokenValue) ==
  IF currentIs(toks, p, tokenType, tokenValue)
    THEN [p |-> step(toks, p), tok |-> current(toks, p), ok |-> TRUE]
    ELSE [p |-> perror(p, afterToken(current(toks, p)), "Expected " \o tokenValue),
          tok |-> Undefined, ok |-> FALSE]

expectOfType(toks, p, tokenType, what) ==
  IF current(toks, p).tokenType = tokenType
    THEN [p |-> step(toks, p), tok |-> current(toks, p), ok |-> TRUE]
    ELSE [p |-> perror(p, afterToken(current(toks, p)), "Expected " \o what),
          tok |-> Undefined, ok |-> FALSE]

expectIdentifier(toks, p) == expectOfType(toks, p, "identifier", "identifier")
expectNumericLiteral(toks, p) == expectOfType(toks, p, "numeric-literal", "number")
expectStringLiteral(toks, p) == expectOfType(toks, p, "string-literal", "string")

\* With(e, F) is F(e) with e evaluated once, however often F uses it: the
\* productions below are sequences of statements, each using the parser
\* state the previous one left.
With(e, F(_)) == CHOOSE r \in {F(v) : v \in {e}} : TRUE

\* the while loop of parseComplexIdentifier
RECURSIVE complexIdentifierRest(_, _, _)
complexIdentifierRest(toks, p, tokens) ==
  IF ~currentIs(toks, p, "symbol", ".")
    THEN [p |-> p, node |-> identifierNode(tokens, TRUE)]
    ELSE With(expectIdentifier(toks, step(toks, p)), LAMBDA name :
           IF ~name.ok
             THEN [p |-> name.p,
                   node |-> identifierNode(Append(tokens, current(toks, p)),
                                           FALSE)]
             ELSE complexIdentifierRest(toks, name.p,
                    tokens \o <<current(toks, p), name.tok>>))

parseComplexIdentifier(toks, p) ==
  With(expectIdentifier(toks, p), LAMBDA name :
    IF ~name.ok
      THEN [p |-> name.p, node |-> identifierNode(<<>>, TRUE)]
      ELSE complexIdentifierRest(toks, name.p, <<name.tok>>))

RECURSIVE parseType(_, _), parseTypeArgs(_, _, _)
parseType(toks, p) ==
  With(parseComplexIdentifier(toks, p), LAMBDA id :
    IF ~id.node.isComplete \/ ~currentIs(toks, id.p, "symbol", "<")
      THEN [p |-> id.p, node |-> typeNode(id.node, <<>>)]
      ELSE With(parseTypeArgs(toks, id.p, <<>>), LAMBDA a :
             [p |-> expect(toks, a.p, "symbol", ">").p,
              node |-> typeNode(id.node, a.args)]))

\* do { this.step(); node.args.push(this.parseType()); } while (currentIs(","))
parseTypeArgs(toks, p, args) ==
  With(step(toks, p), LAMBDA p1 :
  With(parseType(toks, p1), LAMBDA t :
    IF currentIs(toks, t.p, "symbol", ",")
      THEN parseTypeArgs(toks, t.p, Append(args, t.node))
      ELSE [p |-> t.p, args |-> Append(args, t.node)]))

parsePackageDefinition(toks, p) ==
  With(expect(toks, p, "keyword", "package"), LAMBDA kw :
  With(parseComplexIdentifier(toks, kw.p), LAMBDA id :
    [p |-> expect(toks, id.p, "symbol", ";").p,
     node |-> packageNode(kw.tok, id.node)]))

\* `if (this.currentIs(tokenType, tokenValue)) { x = this.current(); this.step(); }`
optionalToken(toks, p, tokenType, tokenValue) ==
  IF currentIs(toks, p, tokenType, tokenValue)
    THEN [p |-> step(toks, p), tok |-> current(toks, p), ok |-> TRUE]
    ELSE [p |-> p, tok |-> Undefined, ok |-> FALSE]

parseMessageField(toks, p) ==
  With(optionalToken(toks, p, "keyword", "optional"), LAMBDA opt :
  With(parseType(toks, opt.p), LAMBDA ty :
    IF ~ty.node.isComplete
      THEN [p |-> ty.p,
            node |-> messageFieldNode(opt.tok, ty.node, Undefined, NoOrdinal)]
    ELSE
  With(expectIdentifier(toks, ty.p), LAMBDA name :
    IF ~name.ok
      THEN [p |-> name.p,
            node |-> messageFieldNode(opt.tok, ty.node, Undefined, NoOrdinal)]
    ELSE
  With(optionalToken(toks, name.p, "symbol", "="), LAMBDA equals :
  With(IF equals.ok THEN expectNumericLiteral(toks, equals.p)
       ELSE [p |-> equals.p, tok |-> Undefined, ok |-> TRUE], LAMBDA value :
    IF ~value.ok
      \* node.ordinal is assigned only here, when the number is missing
      THEN [p |-> value.p,
            node |-> messageFieldNode(opt.tok, ty.node, name.tok,
                       [present |-> TRUE, equals |-> equals.tok,
                        value |-> Undefined])]
      ELSE [p |-> expect(toks, value.p, "symbol", ";").p,
            node |-> messageFieldNode(opt.tok, ty.node, name.tok,
                                      NoOrdinal)])))))

parseEnumField(toks, p) ==
  With(expectIdentifier(toks, p), LAMBDA name :
    IF ~name.ok
      THEN [p |-> name.p, node |-> enumFieldNode(Undefined, NoValue)]
    ELSE
  With(optionalToken(toks, name.p, "symbol", "="), LAMBDA equals :
  With(IF equals.ok THEN expectNumericLiteral(toks, equals.p)
       ELSE [p |-> equals.p, tok |-> Undefined, ok |-> TRUE], LAMBDA value :
  With(IF equals.ok
         THEN [present |-> TRUE, equals |-> equals.tok, value |-> value.tok]
         ELSE NoValue, LAMBDA val :
    IF ~value.ok \/ currentIs(toks, value.p, "symbol", "}")
      THEN [p |-> value.p, node |-> enumFieldNode(name.tok, val)]
      ELSE [p |-> expect(toks, value.p, "symbol", ",").p,
            node |-> enumFieldNode(name.tok, val)]))))

parseRPC(toks, p) ==
  With(expect(toks, p, "keyword", "rpc"), LAMBDA rpc :
    IF ~rpc.ok
      THEN [p |-> rpc.p,
            node |-> rpcNode(Undefined, Undefined, Undefined, EmptyType,
                             Undefined, Undefined, EmptyType)]
    ELSE
  With(expectIdentifier(toks, rpc.p), LAMBDA name :
    IF ~name.ok
      THEN [p |-> name.p,
            node |-> rpcNode(rpc.tok, Undefined, Undefined, EmptyType,
                             Undefined, Undefined, EmptyType)]
    ELSE
  With(expect(toks, name.p, "symbol", "("), LAMBDA open1 :
    IF ~open1.ok
      THEN [p |-> open1.p,
            node |-> rpcNode(rpc.tok, name.tok, Undefined, EmptyType,
                             Undefined, Undefined, EmptyType)]
    ELSE
  With(optionalToken(toks, open1.p, "keyword", "stream"), LAMBDA s1 :
  With(parseType(toks, s1.p), LAMBDA req :
    IF ~req.node.isComplete
      THEN [p |-> req.p,
            node |-> rpcNode(rpc.tok, name.tok, s1.tok, req.node,
                             Undefined, Undefined, EmptyType)]
    ELSE
  With(expect(toks, req.p, "symbol", ")"), LAMBDA close1 :
    IF ~close1.ok
      THEN [p |-> close1.p,
            node |-> rpcNode(rpc.tok, name.tok, s1.tok, req.node,
                             Undefined, Undefined, EmptyType)]
    ELSE
  With(expect(toks, close1.p, "keyword", "returns"), LAMBDA ret :
    IF ~ret.ok
      THEN [p |-> ret.p,
            node |-> rpcNode(rpc.tok, name.tok, s1.tok, req.node,
                             Undefined, Undefined, EmptyType)]
    ELSE
  With(expect(toks, ret.p, "symbol", "("), LAMBDA open2 :
    IF ~open2.ok
      THEN [p |-> open2.p,
            node |-> rpcNode(rpc.tok, name.tok, s1.tok, req.node,
                             ret.tok, Undefined, EmptyType)]
    ELSE
  With(optionalToken(toks, open2.p, "keyword", "stream"), LAMBDA s2 :
  With(parseType(toks, s2.p), LAMBDA res :
    IF ~res.node.isComplete
      THEN [p |-> res.p,
            node |-> rpcNode(rpc.tok, name.tok, s1.tok, req.node,
                             ret.tok, s2.tok, res.node)]
    ELSE
  With(expect(toks, res.p, "symbol", ")"), LAMBDA close2 :
    IF ~close2.ok
      THEN [p |-> close2.p,
            node |-> rpcNode(rpc.tok, name.tok, s1.tok, req.node,
                             ret.tok, s2.tok, res.node)]
      ELSE [p |-> expect(toks, close2.p, "symbol", ";").p,
            node |-> rpcNode(rpc.tok, name.tok, s1.tok, req.node,
                             ret.tok, s2.tok, res.node)])))))))))))

(***************************************************************************)
(* The `{ ... }` body loops and the top-level loop.  Each production is    *)
(* split where its loop is: the part before the loop (...Header), one      *)
(* iteration of the loop (...Iteration) and the part after it (closeBody), *)
(* so that a whole parse() and a parse() taken one iteration at a time run *)
(* the same code.                                                          *)
(***************************************************************************)
NoNode == [kind |-> "none"]

\* parseMessage up to its while loop
parseMessageHeader(toks, p) ==
  With(expect(toks, p, "keyword", "message"), LAMBDA kw :
  With(parseType(toks, kw.p), LAMBDA ty :
  With(expect(toks, ty.p, "symbol", "{"), LAMBDA open :
    [p |-> open.p, inBody |-> open.ok,
     node |-> messageNode(kw.tok, ty.node, <<>>)])))

\* parseEnum up to its while loop
parseEnumHeader(toks, p) ==
  With(expect(toks, p, "keyword", "enum"), LAMBDA kw :
  With(expectIdentifier(toks, kw.p), LAMBDA name :
    IF ~name.ok
      THEN [p |-> name.p, inBody |-> FALSE,
            node |-> enumNode(kw.tok, name.tok, <<>>)]
    ELSE
  With(expect(toks, name.p, "symbol", "{"), LAMBDA open :
    [p |-> open.p, inBody |-> open.ok,
     node |-> enumNode(kw.tok, name.tok, <<>>)])))

\* parseStringEnum up to its while loop
parseStringEnumHeader(toks, p) ==
  With(expect(toks, p, "identifier", "string"), LAMBDA skw :
  With(expect(toks, skw.p, "keyword", "enum"), LAMBDA ekw :
  With(expectIdentifier(toks, ekw.p), LAMBDA name :
    IF ~name.ok
      THEN [p |-> name.p, inBody |-> FALSE,
            node |-> stringEnumNode(skw.tok, ekw.tok, name.tok, <<>>)]
    ELSE
  With(expect(toks, name.p, "symbol", "{"), LAMBDA open :
    [p |-> open.p, inBody |-> open.ok,
     node |-> stringEnumNode(skw.tok, ekw.tok, name.tok, <<>>)]))))

\* parseService up to its while loop
parseServiceHeader(toks, p) ==
  With(expect(toks, p, "keyword", "service"), LAMBDA kw :
  With(expectIdentifier(toks, kw.p), LAMBDA name :
    IF ~name.ok
      THEN [p |-> name.p, inBody |-> FALSE,
            node |-> serviceNode(kw.tok, name.tok, <<>>)]
    ELSE
  With(expect(toks, name.p, "symbol", "{"), LAMBDA open :
    [p |-> open.p, inBody |-> open.ok,
     node |-> serviceNode(kw.tok, name.tok, <<>>)])))

\* the loop body without its `this.step()`
stepIfNoProgressNever(toks, tokenBefore, p) == p

\* `if (this.index === tokenBefore) { this.step(); }`
stepIfNoProgress(toks, tokenBefore, p) ==
  IF p.index = tokenBefore THEN step(toks, p) ELSE p

\* one iteration of the while loop of parseMessage
messageIteration(toks, p, node) ==
  With(parseMessageField(toks, p), LAMBDA f :
    [p |-> stepIfNoProgress(toks, p.index, f.p), break |-> FALSE,
     node |-> [node EXCEPT !.fields = Append(@, f.node)]])

\* one iteration of the while loop of parseEnum
enumIteration(toks, p, node) ==
  With(parseEnumField(toks, p), LAMBDA f :
    [p |-> stepIfNoProgress(toks, p.index, f.p), break |-> FALSE,
     node |-> [node EXCEPT !.fields = Append(@, f.node)]])

\* one iteration of the while loop of parseService
serviceIteration(toks, p, node) ==
  With(parseRPC(toks, p), LAMBDA r :
    [p |-> stepIfNoProgress(toks, p.index, r.p), break |-> FALSE,
     node |-> [node EXCEPT !.rpcs = Append(@, r.node)]])

\* one iteration of the while loop of parseStringEnum
stringEnumIteration(toks, p, node) ==
  With(expectStringLiteral(toks, p), LAMBDA literal :
  With(IF literal.ok \/ currentIs(toks, literal.p, "symbol", ",")
         THEN literal.p ELSE step(toks, literal.p), LAMBDA p1 :
  With(IF literal.ok
         THEN [node EXCEPT !.fields = Append(@, literal.tok)]
         ELSE node, LAMBDA node1 :
    IF p1.exited THEN [p |-> p1, break |-> FALSE, node |-> node1]
    ELSE IF currentIs(toks, p1, "symbol", "}")
      THEN [p |-> p1, break |-> TRUE, node |-> node1]
    ELSE [p |-> expect(toks, p1, "symbol", ",").p, break |-> FALSE,
          node |-> node1])))

bodyIteration(toks, p, node) ==
  CASE node.kind = "message" -> messageIteration(toks, p, node)
    [] node.kind = "enum" -> enumIteration(toks, p, node)
    [] node.kind = "service" -> serviceIteration(toks, p, node)
    [] node.kind = "string-enum" -> stringEnumIteration(toks, p, node)

\* `while (!this.currentIs("symbol", "}"))`
bodyLoopRuns(toks, p) == ~currentIs(toks, p, "symbol", "}")

\* `this.expect("symbol", "}"); return ...Node(node);` after the loop
closeBody(toks, p) == expect(toks, p, "symbol", "}").p

RECURSIVE bodyLoop(_, _, _)
bodyLoop(toks, p, node) ==
  IF ~bodyLoopRuns(toks, p) THEN [p |-> closeBody(toks, p), node |-> node]
  ELSE With(bodyIteration(toks, p, node), LAMBDA it :
         IF it.p.exited THEN [p |-> it.p, node |-> it.node]
         ELSE IF it.break
           THEN [p |-> closeBody(toks, it.p), node |-> it.node]
         ELSE bodyLoop(toks, it.p, it.node))

\* which production parseTopLevel chooses for the current token
topLevelKind(tok) ==
  IF tok.tokenType = "keyword" /\ tok.value = "message" THEN "message"
  ELSE IF tok.tokenType = "keyword" /\ tok.value = "enum" THEN "enum"
  ELSE IF tok.tokenType = "identifier" /\ tok.value = "string" THEN "string-enum"
  ELSE IF tok.tokenType = "keyword" /\ tok.value = "service" THEN "service"
  ELSE IF tok.tokenType = "keyword" /\ tok.value = "package" THEN "package"
  ELSE "unknown"

topLevelHeader(toks, p) ==
  CASE topLevelKind(current(toks, p)) = "message" -> parseMessageHeader(toks, p)
    [] topLevelKind(current(toks, p)) = "enum" -> parseEnumHeader(toks, p)
    [] topLevelKind(current(toks, p)) = "string-enum" -> parseStringEnumHeader(toks, p)
    [] topLevelKind(current(toks, p)) = "service" -> parseServiceHeader(toks, p)

\* the last branch of parseTopLevel: a diagnostic, one step, no node
unknownTopLevel(toks, p) ==
  step(toks, perror(p, current(toks, p), "Unknown top level"))

\* Parser.parseTopLevel; node NoNode stands for `undefined`
parseTopLevel(toks, p) ==
  IF topLevelKind(current(toks, p)) = "package"
    THEN parsePackageDefinition(toks, p)
  ELSE IF topLevelKind(current(toks, p)) = "unknown"
    THEN [p |-> unknownTopLevel(toks, p), node |-> NoNode]
  ELSE With(topLevelHeader(toks, p), LAMBDA h :
         IF h.inBody THEN bodyLoop(toks, h.p, h.node)
         ELSE [p |-> h.p, node |-> h.node])

\* `while (parser.current().tokenType !== "EOF")`
RECURSIVE parseLoop(_, _, _)
parseLoop(toks, p, nodes) ==
  IF p.exited \/ current(toks, p).tokenType = "EOF"
    THEN [p |-> p, nodes |-> nodes]
    ELSE With(parseTopLevel(toks, p), LAMBDA r :
           parseLoop(toks, r.p,
                     IF r.node.kind = "none" THEN nodes
                     ELSE Append(nodes, r.node)))

\* `tokens.filter((t) => t.tokenType !== "comment")`
notComment(t) == t.tokenType # "comment"

\* parse(tokens, diagnostics): [p, nodes]; p.exited when process.exit(1) ran
parse(tokens) ==
  With(SelectSeq(tokens, notComment), LAMBDA toks :
    parseLoop(toks, NewParser, <<>>))

(***************************************************************************)
(* Bounds and inputs.                                                      *)
(***************************************************************************)
\* the longest run of arbitrary tokens that follows an opening of a stream
MaxTail == 3

\* the tokens the arbitrary part of a stream is made of
TailTokens ==
  {Kw("rpc"), Id("x"), Id("string"), Sym("{"), Sym("}"), Sym(","),
   Sym(";"), Sym("<"), Sym("="), Num(1), Str("s")}

\* how a stream opens: nothing, a package declaration, or one of the four
\* `{ ... }` productions up to its opening brace
Openings ==
  {<<>>,
   <<Kw("package"), Id("x"), Sym(";")>>,
   <<Kw("message"), Id("x"), Sym("{")>>,
   <<Kw("enum"), Id("x"), Sym("{")>>,
   <<Id("string"), Kw("enum"), Id("x"), Sym("{")>>,
   <<Kw("service"), Id("x"), Sym("{")>>}

Tails == UNION {[1..n -> TailTokens] : n \in 0..MaxTail}

\* the token lists parse() is given: each ends in EOF, as tokenize() returns
ParseInputs == {Located("f", o \o t) : o \in Openings, t \in Tails}

(***************************************************************************)
(* One parse() call, taken one loop iteration at a time.                   *)
(***************************************************************************)
\* the files of the workspace, in the order the command line names them
Files == <<"f1", "f2">>

\* new SemanticAnalyzer(new DiagnosticCollection(...)), nothing loaded
IdleAnalyzer ==
  /\ definitions = <<>>
  /\ items = <<>>
  /\ heap = 0
  /\ threw = ""
  /\ docs = [k \in 1..Len(Files) |-> 0]
  /\ last = [op |-> "none", file |-> ""]
  /\ ops = 0

\* no emitted serializer or deserializer is running
IdleCodec == codec = [pc |-> "idle"]

IdleTokenizer == tz = [pc |-> "idle"]

\* the language server before any event: no handler running, nothing sent
\* to the client, no workspace, no read in flight
IdleLsp ==
  lsp = [pc |-> "idle", uri |-> "", content |-> 0, nodes |-> <<>>,
         trace |-> <<>>, published |-> [k \in 1..Len(Files) |-> <<>>],
         pending |-> {}, workspace |-> {}, epoch |-> 0,
         edited |-> [k \in 1..Len(Files) |-> 0]]

PInit ==
  /\ ptoks \in ParseInputs
  /\ pst = NewParser
  /\ ppc = "top"
  /\ pnodes = <<>>
  /\ pcur = NoNode
  /\ pbefore = [top |-> 0, body |-> 0]
  /\ IdleAnalyzer
  /\ IdleCodec
  /\ IdleTokenizer
  /\ IdleLsp

AtTop(kind) ==
  /\ ppc = "top"
  /\ current(ptoks, pst).tokenType # "EOF"
  /\ topLevelKind(current(ptoks, pst)) = kind

\* parseTopLevel entering parseMessage / parseEnum / parseStringEnum /
\* parseService, up to the body loop
PHeader(kind) ==
  /\ AtTop(kind)
  /\ \E h \in {topLevelHeader(ptoks, pst)} :
        /\ pst' = h.p
        /\ pbefore' = [pbefore EXCEPT !.top = pst.index]
        /\ IF h.inBody
             THEN ppc' = "body" /\ pcur' = h.node /\ pnodes' = pnodes
             ELSE ppc' = "top" /\ pcur' = NoNode
                  /\ pnodes' = Append(pnodes, h.node)
  /\ UNCHANGED <<ptoks, avars, codec, tz, lsp>>

PMessageHeader == PHeader("message")
PEnumHeader == PHeader("enum")
PStringEnumHeader == PHeader("string-enum")
PServiceHeader == PHeader("service")

PPackage ==
  /\ AtTop("package")
  /\ \E r \in {parsePackageDefinition(ptoks, pst)} :
        pst' = r.p /\ pnodes' = Append(pnodes, r.node)
  /\ pbefore' = [pbefore EXCEPT !.top = pst.index]
  /\ UNCHANGED <<ptoks, ppc, pcur, avars, codec, tz, lsp>>

PUnknownTopLevel ==
  /\ AtTop("unknown")
  /\ pst' = unknownTopLevel(ptoks, pst)
  /\ pbefore' = [pbefore EXCEPT !.top = pst.index]
  /\ UNCHANGED <<ptoks, ppc, pnodes, pcur, avars, codec, tz, lsp>>

\* one iteration of the body loop of the production `kind`
PBody(kind) ==
  /\ ppc = "body"
  /\ pcur.kind = kind
  /\ bodyLoopRuns(ptoks, pst)
  /\ \E it \in {bodyIteration(ptoks, pst, pcur)} :
        /\ pst' = it.p
        /\ pcur' = it.node
        /\ ppc' = IF it.p.exited THEN "exit" ELSE "body"
  /\ pbefore' = [pbefore EXCEPT !.body = pst.index]
  /\ UNCHANGED <<ptoks, pnodes, avars, codec, tz, lsp>>

PMessageField == PBody("message")
PEnumField == PBody("enum")
PStringEnumValue == PBody("string-enum")
PRPC == PBody("service")

\* the loop condition failed: expect("}"), return the node to parse()
PCloseBody ==
  /\ ppc = "body"
  /\ ~bodyLoopRuns(ptoks, pst)
  /\ pst' = closeBody(ptoks, pst)
  /\ pnodes' = Append(pnodes, pcur)
  /\ pcur' = NoNode
  /\ ppc' = "top"
  /\ UNCHANGED <<ptoks, pbefore, avars, codec, tz, lsp>>

\* the top-level loop condition failed: parse() returns nodes
PFinish ==
  /\ ppc = "top"
  /\ current(ptoks, pst).tokenType = "EOF"
  /\ ppc' = "done"
  /\ UNCHANGED <<ptoks, pst, pnodes, pcur, pbefore, avars, codec, tz, lsp>>

PNext ==
  \/ PMessageHeader \/ PEnumHeader \/ PStringEnumHeader \/ PServiceHeader
  \/ PPackage \/ PUnknownTopLevel
  \/ PMessageField \/ PEnumField \/ PStringEnumValue \/ PRPC
  \/ PCloseBody \/ PFinish

SpecParse == PInit /\ [][PNext]_vars

\* parse() is one synchronous call: once started it runs until it returns
\* or the process exits
SpecParseLive == SpecParse /\ WF_vars(PNext)

\* the parser state a child production starts from at token `index`
ParserAt(index) == [index |-> index, diags |-> <<>>, exited |-> FALSE]

\* where the child production of the body loop of `node` stops when it
\* starts at token `index`
childStopsAt(toks, index, node) ==
  CASE node.kind = "message" -> parseMessageField(toks, ParserAt(index)).p.index
    [] node.kind = "enum" -> parseEnumField(toks, ParserAt(index)).p.index
    [] node.kind = "service" -> parseRPC(toks, ParserAt(index)).p.index
    [] OTHER -> expectStringLiteral(toks, ParserAt(index)).p.index

(***************************************************************************)
(* C7: for every token stream ending in EOF, unclosed bodies included,     *)
(* the parser never attempts to step past the EOF token: the fatal exit    *)
(* 'step over EOF' of Parser.step is never taken.                          *)
(***************************************************************************)
C7_StepOverEOFUnreachable == ~pst.exited /\ ppc # "exit"

(***************************************************************************)
(* C8: parse terminates on every finite token stream.  The index stays     *)
(* within the tokens; every step of the top-level loop and every iteration *)
(* of a body loop that runs to its end leaves the index at least one token *)
(* further (an iteration that does not run to its end is one that ended    *)
(* the process in Parser.step); and the call ends.                         *)
(***************************************************************************)
C8_IterationAdvances ==
  \/ pst'.index > pst.index
  \/ ppc' \in {"done", "exit"}

BUILTIN_PACKAGE == "<builtin>"
UNKNOWN_PACKAGE == "<unknown>"

\* `undefined` where a Type is expected
NoType == [typeKind |-> "undefined"]

\* `undefined` where a Definition is expected
NoDef == [kind |-> "none"]

\* { typeKind: "generic", name }: a generic type has no kind and no args
GenericType(name, ref) ==
  [typeKind |-> "generic", kind |-> "", packageId |-> "", name |-> name,
   args |-> <<>>, restArgs |-> FALSE, ref |-> ref, target |-> 0]

\* a real type: a builtin, or the copy `{ ...resolvedType }` of a definition;
\* `target` is the definition whose genericInstances array the copy shares
RealType(kind, packageId, name, args, restArgs, ref, target) ==
  [typeKind |-> "real", kind |-> kind, packageId |-> packageId, name |-> name,
   args |-> args, restArgs |-> restArgs, ref |-> ref, target |-> target]

NoArgBuiltins ==
  <<"void", "int32", "int64", "uint32", "uint64", "float", "double",
    "sint32", "sint64", "fixed32", "fixed64", "sfixed32", "sfixed64",
    "bool", "string", "bytes", "Date">>

builtinTypes ==
  [i \in 1..Len(NoArgBuiltins) |->
     RealType("builtin", BUILTIN_PACKAGE, NoArgBuiltins[i], <<>>, FALSE, 0, 0)]
  \o <<RealType("builtin", BUILTIN_PACKAGE, "Array",
                <<GenericType("T", 0)>>, FALSE, 0, 0),
       RealType("builtin", BUILTIN_PACKAGE, "Nullable",
                <<GenericType("T", 0)>>, FALSE, 0, 0),
       RealType("builtin", BUILTIN_PACKAGE, "OneOf", <<>>, TRUE, 0, 0)>>

\* `tokens.map((n) => n.value).join("")`
RECURSIVE JoinValues(_)
JoinValues(tokens) ==
  IF tokens = <<>> THEN "" ELSE Head(tokens).value \o JoinValues(Tail(tokens))

\* this.diagnostics.error(...) of the analyzer, for a diagnostic of `kind`
aerror(a, token, kind, message) ==
  [a EXCEPT !.items = error(@, token, ScopeOf(kind), message)]

\* an uncaught TypeError in `phase`
throw(a, phase) == [a EXCEPT !.threw = phase]

\* the start of `file`: { file, range: { start: 0:0, end: 0:0 } }
fileStart(file) == [Undefined EXCEPT !.file = file]

packageNodes(ast) == SelectSeq(ast, LAMBDA n : n.kind = "package")

RECURSIVE multiplePackages(_, _, _)
multiplePackages(a, pkgs, k) ==
  IF k > Len(pkgs) THEN a
  ELSE multiplePackages(
         aerror(a, pkgs[k].keyword, "multiple-packages",
                "Multiple package definitions are not allowed."),
         pkgs, k + 1)

\* getCurrentPackageFromNodes: [a, packageId]
getCurrentPackageFromNodes(file, ast, a) ==
  With(packageNodes(ast), LAMBDA pkgs :
    IF Len(pkgs) = 0
      THEN [a |-> aerror(a, fileStart(file), "missing-package",
                         "Every file requires a package definition"),
            packageId |-> UNKNOWN_PACKAGE]
    ELSE IF ~pkgs[1].identifier.isComplete
      THEN [a |-> a, packageId |-> UNKNOWN_PACKAGE]
    ELSE [a |-> multiplePackages(a, pkgs, 2),
          packageId |-> JoinValues(pkgs[1].identifier.tokens)])

\* a definition object; `ref` is its identity
Definition(kind, name, file, node, packageId, ref) ==
  [kind |-> kind, typeKind |-> "real", name |-> name, file |-> file,
   astNode |-> node, packageId |-> packageId, args |-> <<>>,
   restArgs |-> FALSE, fields |-> <<>>, rpcs |-> <<>>,
   genericInstances |-> <<>>, ref |-> ref]

\* the for loop of enumDefinition
\* enumDefinition without `if (field.value) { value = ... }`
RECURSIVE enumFieldsSequential(_, _, _, _)
enumFieldsSequential(fields, k, value, acc) ==
  IF k > Len(fields) THEN acc
  ELSE IF ~fields[k].isComplete
    THEN enumFieldsSequential(fields, k + 1, value, acc)
  ELSE enumFieldsSequential(fields, k + 1, value + 1,
         Append(acc, [name |-> fields[k].name.value, value |-> value]))

RECURSIVE enumFields(_, _, _, _)
enumFields(fields, k, value, acc) ==
  IF k > Len(fields) THEN acc
  ELSE IF ~fields[k].isComplete THEN enumFields(fields, k + 1, value, acc)
  ELSE With(IF fields[k].value.present THEN fields[k].value.value.num
            ELSE value, LAMBDA v :
         enumFields(fields, k + 1, v + 1,
                    Append(acc, [name |-> fields[k].name.value, value |-> v])))

\* the for loop of messageDefinition over node.type.args
RECURSIVE formalArgs(_, _, _)
formalArgs(args, k, acc) ==
  IF k > Len(args) THEN [how |-> "ok", args |-> acc]
  ELSE IF Len(args[k].args) > 0
    THEN [how |-> "diagnostic", token |-> args[k].args[1].identifier.tokens[1]]
  ELSE IF Len(args[k].identifier.tokens) > 1
    \* `arg.args[0].identifier` with arg.args empty
    THEN [how |-> "TypeError"]
  ELSE formalArgs(args, k + 1,
         Append(acc, GenericType(args[k].identifier.tokens[1].value, 0)))

messageDefinition(file, node, packageId, a) ==
  With(formalArgs(node.type.args, 1, <<>>), LAMBDA f :
    IF f.how = "TypeError"
      THEN [a |-> throw(a, "analyzeASTNodes"), def |-> NoDef]
    ELSE IF f.how = "diagnostic"
      THEN [a |-> aerror(a, f.token, "generic-form-invalid",
                 "Generic arguments must be simple indentifiers and must not themselves be generic."),
            def |-> NoDef]
    ELSE [a |-> [a EXCEPT !.heap = @ + 1],
          def |-> [Definition("message", node.type.identifier.tokens[1].value,
                              file, node, packageId, a.heap + 1)
                     EXCEPT !.args = f.args]])

\* enumDefinition, stringEnumDefinition, serviceDefinition
namedDefinition(file, node, packageId, a) ==
  [a |-> [a EXCEPT !.heap = @ + 1],
   def |-> [Definition(node.kind, node.name.value, file, node, packageId,
                       a.heap + 1)
              EXCEPT !.fields =
                CASE node.kind = "enum" -> enumFields(node.fields, 1, 0, <<>>)
                  [] node.kind = "string-enum" ->
                       [k \in 1..Len(node.fields) |-> node.fields[k].value]
                  [] OTHER -> <<>>]]

\* astNodeToDefinition: [a, def]
astNodeToDefinition(file, node, packageId, a) ==
  IF node.kind \in {"enum", "string-enum", "service"}
    THEN IF node.name.tokenType = "undefined"
           \* `node.name.tokenType` with node.name undefined
           THEN [a |-> throw(a, "analyzeASTNodes"), def |-> NoDef]
         ELSE IF node.name.tokenType = "identifier"
           THEN namedDefinition(file, node, packageId, a)
         ELSE [a |-> a, def |-> NoDef]
  ELSE IF node.kind = "message" /\ node.type.isComplete
    THEN messageDefinition(file, node, packageId, a)
  ELSE [a |-> a, def |-> NoDef]

\* `astNodes.map((a) => astNodeToDefinition(...)).filter((f) => !!f)`
RECURSIVE mapDefinitions(_, _, _, _, _, _)
mapDefinitions(file, astNodes, packageId, a, k, acc) ==
  IF k > Len(astNodes) \/ a.threw # "" THEN [a |-> a, defs |-> acc]
  ELSE With(astNodeToDefinition(file, astNodes[k], packageId, a), LAMBDA r :
         mapDefinitions(file, astNodes, packageId, r.a, k + 1,
                        IF r.def = NoDef THEN acc ELSE Append(acc, r.def)))

\* SemanticAnalyzer.analyzeASTNodes: this.definitions is assigned the new
\* array, unless a TypeError left the method before the assignment
analyzeASTNodes(file, astNodes, a) ==
  With(getCurrentPackageFromNodes(file, astNodes, a), LAMBDA pk :
  With(mapDefinitions(file, astNodes, pk.packageId, pk.a, 1, <<>>), LAMBDA m :
    IF m.a.threw # "" THEN m.a ELSE [m.a EXCEPT !.defs = m.defs]))

\* SemanticAnalyzer.removeDefinitionsFromFile
removeDefinitionsFromFile(defs, file) ==
  SelectSeq(defs, LAMBDA d : d.file # file)

\* `array.find(pred)`: the first element that satisfies pred, or `none`
FindFirst(seq, pred(_), none) ==
  With(SelectSeq(seq, pred), LAMBDA found :
    IF found = <<>> THEN none ELSE found[1])

\* a definition seen as the RealType it is (resolvedType = the definition)
asType(d) ==
  IF d = NoDef THEN NoType
  ELSE RealType(d.kind, d.packageId, d.name, d.args, d.restArgs, d.ref, d.ref)

\* `this.definitions.filter((d) => d.kind !== "service")
\*      .find((d) => d.name === typeName && d.packageId === packageId)`
findDefinition(defs, typeName, packageId) ==
  asType(FindFirst(defs, LAMBDA d : d.kind # "service" /\ d.name = typeName
                                    /\ d.packageId = packageId, NoDef))

\* the `resolvedType = ...` statement of resolveType, lines 229-260.  In the
\* prefixed branch `x ?? typeof p === "string" ? y : undefined` groups as
\* `(x ?? (typeof p === "string")) ? y : undefined`, and a found definition
\* is an object, which is truthy.
lookupType(defs, definition, name) ==
  With(JoinValues(SubSeq(name, 1, Len(name) - 2)), LAMBDA packageId :
  With(name[Len(name)].value, LAMBDA typeName :
    IF packageId = ""
      THEN With(FindFirst(builtinTypes, LAMBDA t : t.name = typeName, NoType),
             LAMBDA builtin :
               IF builtin # NoType THEN builtin
               ELSE findDefinition(defs, typeName, definition.packageId))
    ELSE With(findDefinition(defs, typeName, packageId), LAMBDA direct :
           IF (IF direct # NoType THEN TRUE
               ELSE definition.packageId # UNKNOWN_PACKAGE)
             THEN findDefinition(defs, typeName,
                    definition.packageId \o "." \o packageId)
             ELSE NoType)))

\* `definition.kind === "message" ? definition.args : []`
typeArgsOf(definition) ==
  IF definition.kind = "message" THEN definition.args ELSE <<>>

\* `typeArgs.some((arg) => arg.name === name[0].value)`
isFormal(typeArgs, value) == \E k \in 1..Len(typeArgs) : typeArgs[k].name = value

arityMessage(diagnosticName, resolvedType) ==
  IF Len(resolvedType.args) = 0
    THEN "Type " \o diagnosticName \o " does not have generic arguments"
    ELSE "Type " \o diagnosticName \o " only has "
         \o ToString(Len(resolvedType.args)) \o " generic arguments"

\* SemanticAnalyzer.resolveType: [a, type], and resolveTypeArgs, its loop
\* `for (const generic of typeNode.args ?? [])`
RECURSIVE resolveType(_, _, _), resolveTypeArgs(_, _, _, _, _, _)
resolveType(a, d, node) ==
  IF ~node.isComplete THEN [a |-> a, type |-> NoType]
  ELSE With(node.identifier.tokens, LAMBDA name :
    IF Len(name) = 1 /\ isFormal(typeArgsOf(a.defs[d]), name[1].value)
      THEN IF Len(node.args) > 0 /\ node.args[1].identifier.isComplete
             THEN [a |-> aerror(a, node.args[1].identifier.tokens[1],
                                "generic-has-args",
                                "Generic type must not have a generic argument"),
                   type |-> NoType]
             ELSE [a |-> [a EXCEPT !.heap = @ + 1],
                   type |-> GenericType(name[1].value, a.heap + 1)]
    ELSE With(lookupType(a.defs, a.defs[d], name), LAMBDA resolvedType :
      IF resolvedType = NoType
        THEN [a |-> aerror(a, name[1], "unknown-type",
                           "Unknown type " \o JoinValues(name)),
              type |-> NoType]
        ELSE resolveTypeArgs([a EXCEPT !.heap = @ + 1], d, node, resolvedType,
               1, [resolvedType EXCEPT !.args = <<>>, !.ref = a.heap + 1])))

resolveTypeArgs(a, d, node, resolvedType, k, returnedType) ==
  IF k > Len(node.args) THEN [a |-> a, type |-> returnedType]
  ELSE IF ~node.args[k].identifier.isComplete
    THEN resolveTypeArgs(a, d, node, resolvedType, k + 1, returnedType)
  ELSE With(IF ~resolvedType.restArgs
               /\ Len(returnedType.args) >= Len(resolvedType.args)
              THEN aerror(a, node.args[k].identifier.tokens[1],
                          "arity-mismatch",
                          arityMessage(JoinValues(node.identifier.tokens),
                                       resolvedType))
              ELSE a, LAMBDA a1 :
       With(resolveType(a1, d, node.args[k]), LAMBDA verified :
         IF verified.type = NoType THEN [a |-> verified.a, type |-> NoType]
         ELSE resolveTypeArgs(verified.a, d, node, resolvedType, k + 1,
                [returnedType EXCEPT !.args = Append(@, verified.type)])))

\* the ordinal check of analyzeMessageFields, lines 157-168
checkOrdinal(a, field, ordinal) ==
  IF field.ordinal.present /\ field.ordinal.value.num < ordinal
    THEN aerror(a, field.ordinal.value,
                IF field.ordinal.value.num < 1 THEN "ordinal-nonpositive"
                ELSE "ordinal-not-monotonic",
                IF field.ordinal.value.num < 1
                  THEN "Message field numbers must be greater than 0."
                  ELSE "Message field numbers must be sequential.")
    ELSE a

\* analyzeMessageFields with `ordinal++` inside `if (type) { ... }`
RECURSIVE analyzeMessageFieldsStalling(_, _, _, _)
analyzeMessageFieldsStalling(a, d, k, ordinal) ==
  IF k > Len(a.defs[d].astNode.fields) THEN a
  ELSE With(a.defs[d].astNode.fields[k], LAMBDA field :
    IF ~field.isComplete THEN analyzeMessageFieldsStalling(a, d, k + 1, ordinal)
    ELSE With(resolveType(checkOrdinal(a, field, ordinal), d, field.type),
              LAMBDA r :
           IF r.type = NoType
             THEN analyzeMessageFieldsStalling(r.a, d, k + 1, ordinal)
             ELSE analyzeMessageFieldsStalling(
                    [r.a EXCEPT !.defs[d].fields =
                       Append(@, [name |-> field.name.value,
                                  ordinal |-> ordinal, type |-> r.type,
                                  optional |-> field.optional # Undefined])],
                    d, k + 1, ordinal + 1)))

\* SemanticAnalyzer.analyzeMessageFields, from field k on with the counter
\* at `ordinal`
RECURSIVE analyzeMessageFields(_, _, _, _)
analyzeMessageFields(a, d, k, ordinal) ==
  IF k > Len(a.defs[d].astNode.fields) THEN a
  ELSE With(a.defs[d].astNode.fields[k], LAMBDA field :
    IF ~field.isComplete THEN analyzeMessageFields(a, d, k + 1, ordinal)
    ELSE With(checkOrdinal(a, field, ordinal), LAMBDA a1 :
         With(resolveType(a1, d, field.type), LAMBDA r :
         With(IF r.type = NoType THEN r.a
              ELSE [r.a EXCEPT !.defs[d].fields =
                      Append(@, [name |-> field.name.value,
                                 ordinal |-> ordinal, type |-> r.type,
                                 optional |-> field.optional # Undefined])],
              LAMBDA a2 :
           analyzeMessageFields(a2, d, k + 1, ordinal + 1)))))

\* `args.length === type.args.length && args.every((a, i) => a === type.args[i])`
sameInstance(args, typeArgs) ==
  /\ Len(args) = Len(typeArgs)
  /\ \A i \in 1..Len(args) : args[i].ref = typeArgs[i].ref

\* the definition whose genericInstances array the copy `type` shares
targetOf(defs, type) ==
  CHOOSE i \in 1..Len(defs) : defs[i].ref = type.target

\* addGenericMessageInstances without the loop `for (const arg of type.args)`
addInstancesOfArgsShallow(a, args, k) == a

\* SemanticAnalyzer.addGenericMessageInstances, and its loop over type.args
RECURSIVE addGenericMessageInstances(_, _), addInstancesOfArgs(_, _, _)
addGenericMessageInstances(a, type) ==
  \* `type.kind` with type undefined
  IF type = NoType THEN throw(a, "analyze")
  ELSE With(IF type.kind = "message"
               /\ ~\E n \in 1..Len(a.defs[targetOf(a.defs, type)].genericInstances) :
                     sameInstance(a.defs[targetOf(a.defs, type)].genericInstances[n],
                                  type.args)
              THEN [a EXCEPT !.defs[targetOf(a.defs, type)].genericInstances =
                               Append(@, type.args)]
              ELSE a, LAMBDA a1 :
         \* `for (const arg of type.args)` with type.args undefined
         IF type.typeKind = "generic" THEN throw(a1, "analyze")
         ELSE addInstancesOfArgs(a1, type.args, 1))

addInstancesOfArgs(a, args, k) ==
  IF k > Len(args) \/ a.threw # "" THEN a
  ELSE With(addGenericMessageInstances(a, args[k]), LAMBDA a1 :
         addInstancesOfArgs(a1, args, k + 1))

\* SemanticAnalyzer.serviceResolveType: [a, type]
serviceResolveType(a, d, node) ==
  With(resolveType(a, d, node), LAMBDA r :
    [a |-> addGenericMessageInstances(r.a, r.type), type |-> r.type])

\* SemanticAnalyzer.analyzeServiceRPCs, from rpc k on
RECURSIVE analyzeServiceRPCs(_, _, _)
analyzeServiceRPCs(a, d, k) ==
  IF k > Len(a.defs[d].astNode.rpcs) THEN a
  ELSE With(a.defs[d].astNode.rpcs[k], LAMBDA rpc :
       With(serviceResolveType(a, d, rpc.requestType), LAMBDA requestType :
         IF requestType.a.threw # "" THEN requestType.a
         ELSE
       With(serviceResolveType(requestType.a, d, rpc.responseType),
            LAMBDA responseType :
         IF responseType.a.threw # "" THEN responseType.a
         ELSE
       With(IF requestType.type # NoType /\ responseType.type # NoType
              THEN [responseType.a EXCEPT !.defs[d].rpcs =
                      Append(@, [path |-> rpc.name.value,
                                 request |->
                                   [type |-> requestType.type,
                                    stream |-> rpc.requestStream # Undefined],
                                 response |->
                                   [type |-> responseType.type,
                                    stream |-> rpc.responseStream # Undefined]])]
              ELSE responseType.a, LAMBDA a1 :
         analyzeServiceRPCs(a1, d, k + 1)))))

\* SemanticAnalyzer.analyzeDefinition
analyzeDefinition(a, d) ==
  CASE a.defs[d].kind = "message" -> analyzeMessageFields(a, d, 1, 1)
    [] a.defs[d].kind = "service" -> analyzeServiceRPCs(a, d, 1)
    [] OTHER -> a

\* SemanticAnalyzer.analyze: `for (const definition of this.definitions)`
RECURSIVE analyzeFrom(_, _)
analyzeFrom(a, d) ==
  IF d > Len(a.defs) \/ a.threw # "" THEN a
  ELSE With(analyzeDefinition(a, d), LAMBDA a1 : analyzeFrom(a1, d + 1))

analyze(a) == analyzeFrom(a, 1)

(***************************************************************************)
(* The language server's loadDocument (src/src/lsp/diagnostics.ts) and the *)
(* command line's main (src/src/index.ts).                                 *)
(***************************************************************************)
\* parse(tokenize(uri, content, diagnostics), diagnostics): the diagnostics
\* of the parser are pushed to the shared collection
parseInto(a, uri, content) ==
  With(parse(Located(uri, content)), LAMBDA r :
    [a |-> [a EXCEPT !.items = @ \o r.p.diags,
                     !.threw = IF r.p.exited THEN "exit" ELSE @],
     nodes |-> r.nodes])

\* loadDocument, up to analyzer.analyze(); the LoadDocument action publishes
loadDocument(a, uri, content) ==
  With([a EXCEPT !.items = removeFileDiagnostics(@, uri),
                 !.defs = removeDefinitionsFromFile(@, uri),
                 !.threw = ""], LAMBDA a1 :
  With(parseInto(a1, uri, content), LAMBDA r :
    IF r.a.threw # "" THEN r.a
    ELSE With(analyzeASTNodes(uri, r.nodes, r.a), LAMBDA a2 :
           IF a2.threw # "" THEN a2 ELSE analyze(a2))))

\* createDiagnostic: the range and the message text of a diagnostic
createDiagnostic(d) == [at |-> d.at, message |-> d.message]

\* `diagnostics.items.filter((d) => d.token.file === file).map(createDiagnostic)`
fileDiagnostics(its, file) ==
  With(SelectSeq(its, LAMBDA d : d.file = file), LAMBDA mine :
    [n \in 1..Len(mine) |-> createDiagnostic(mine[n])])

\* sendDiagnostics over `new Set(analyzer.definitions.map((d) => d.astNode.file))`:
\* what the client holds per file afterwards
sendDiagnostics(defs, its, published) ==
  [k \in 1..Len(Files) |->
     IF \E d \in 1..Len(defs) : defs[d].file = Files[k]
       THEN fileDiagnostics(its, Files[k])
       ELSE published[k]]

\* main, first loop: `fileASTs[file] = parse(tokenize(...))` for every file
RECURSIVE parseFiles(_, _, _, _)
parseFiles(a, contents, k, fileASTs) ==
  IF k > Len(contents) \/ a.threw # "" THEN [a |-> a, fileASTs |-> fileASTs]
  ELSE IF contents[k] = <<>>
    THEN parseFiles(a, contents, k + 1, Append(fileASTs, <<>>))
  ELSE With(parseInto(a, Files[k], contents[k]), LAMBDA r :
         parseFiles(r.a, contents, k + 1, Append(fileASTs, r.nodes)))

\* main, second loop: `semanticAnalyzer.analyzeASTNodes(file, ast)`
RECURSIVE analyzeFiles(_, _, _, _)
analyzeFiles(a, contents, fileASTs, k) ==
  IF k > Len(contents) \/ a.threw # "" THEN a
  ELSE IF contents[k] = <<>> THEN analyzeFiles(a, contents, fileASTs, k + 1)
  ELSE With(analyzeASTNodes(Files[k], fileASTs[k], a), LAMBDA a1 :
         analyzeFiles(a1, contents, fileASTs, k + 1))

NewAnalyzer == [defs |-> <<>>, items |-> <<>>, heap |-> 0, threw |-> ""]

\* main, up to `semanticAnalyzer.analyze()`; contents[k] is the token text of
\* Files[k], or <<>> when the command line does not name the file
main(contents) ==
  With(parseFiles(NewAnalyzer, contents, 1, <<>>), LAMBDA p :
    IF p.a.threw # "" THEN p.a
    ELSE With(analyzeFiles(p.a, contents, p.fileASTs, 1), LAMBDA a1 :
           IF a1.threw # "" THEN a1 ELSE analyze(a1)))

(***************************************************************************)
(* The sources the files can hold.                                         *)
(***************************************************************************)
\* package a; message Fruit { string name; }
SrcFruit ==
  <<Kw("package"), Id("a"), Sym(";"),
    Kw("message"), Id("Fruit"), Sym("{"),
      Id("string"), Id("name"), Sym(";"), Sym("}")>>

\* package b; message Box { a.Fruit f; }
SrcBox ==
  <<Kw("package"), Id("b"), Sym(";"),
    Kw("message"), Id("Box"), Sym("{"),
      Id("a"), Sym("."), Id("Fruit"), Id("f"), Sym(";"), Sym("}")>>

\* package a; message Ord { int32 a; int32 b = 5; int32 c; }
\*            message Crate { a.Ord f; }
SrcOrdinals ==
  <<Kw("package"), Id("a"), Sym(";"),
    Kw("message"), Id("Ord"), Sym("{"),
      Id("int32"), Id("a"), Sym(";"),
      Id("int32"), Id("b"), Sym("="), Num(5), Sym(";"),
      Id("int32"), Id("c"), Sym(";"), Sym("}"),
    Kw("message"), Id("Crate"), Sym("{"),
      Id("a"), Sym("."), Id("Ord"), Id("f"), Sym(";"), Sym("}")>>

\* package a; message Inner<T> { T v; } message Outer<T> { Inner<T> i; }
\*            service S { rpc r(Outer<int32>) returns (Outer<int32>); }
SrcGeneric ==
  <<Kw("package"), Id("a"), Sym(";"),
    Kw("message"), Id("Inner"), Sym("<"), Id("T"), Sym(">"), Sym("{"),
      Id("T"), Id("v"), Sym(";"), Sym("}"),
    Kw("message"), Id("Outer"), Sym("<"), Id("T"), Sym(">"), Sym("{"),
      Id("Inner"), Sym("<"), Id("T"), Sym(">"), Id("i"), Sym(";"), Sym("}"),
    Kw("service"), Id("S"), Sym("{"),
      Kw("rpc"), Id("r"), Sym("("),
        Id("Outer"), Sym("<"), Id("int32"), Sym(">"), Sym(")"),
      Kw("returns"), Sym("("),
        Id("Outer"), Sym("<"), Id("int32"), Sym(">"), Sym(")"), Sym(";"),
    Sym("}")>>

\* package a; service S { rpc r(Nope) returns (void); }
SrcUnresolved ==
  <<Kw("package"), Id("a"), Sym(";"),
    Kw("service"), Id("S"), Sym("{"),
      Kw("rpc"), Id("r"), Sym("("), Id("Nope"), Sym(")"),
      Kw("returns"), Sym("("), Id("void"), Sym(")"), Sym(";"), Sym("}")>>

\* message M { Nope x; }
SrcNoPackage ==
  <<Kw("message"), Id("M"), Sym("{"),
      Id("Nope"), Id("x"), Sym(";"), Sym("}")>>

\* package a; message M { int32 a = 1; int32 b = 1; int32 c = 0; int32 d; }
SrcMonotonic ==
  <<Kw("package"), Id("a"), Sym(";"),
    Kw("message"), Id("M"), Sym("{"),
      Id("int32"), Id("a"), Sym("="), Num(1), Sym(";"),
      Id("int32"), Id("b"), Sym("="), Num(1), Sym(";"),
      Id("int32"), Id("c"), Sym("="), Num(0), Sym(";"),
      Id("int32"), Id("d"), Sym(";"), Sym("}")>>

\* message M { Missing x; int32 y; }
SrcMissing ==
  <<Kw("message"), Id("M"), Sym("{"),
      Id("Missing"), Id("x"), Sym(";"),
      Id("int32"), Id("y"), Sym(";"), Sym("}")>>

\* package a; message Page<T> { T item; Array xs; int32<int32> n; }
\*            service S { rpc r(Page) returns (void); }
SrcArity ==
  <<Kw("package"), Id("a"), Sym(";"),
    Kw("message"), Id("Page"), Sym("<"), Id("T"), Sym(">"), Sym("{"),
      Id("T"), Id("item"), Sym(";"),
      Id("Array"), Id("xs"), Sym(";"),
      Id("int32"), Sym("<"), Id("int32"), Sym(">"), Id("n"), Sym(";"),
    Sym("}"),
    Kw("service"), Id("S"), Sym("{"),
      Kw("rpc"), Id("r"), Sym("("), Id("Page"), Sym(")"),
      Kw("returns"), Sym("("), Id("void"), Sym(")"), Sym(";"), Sym("}")>>

\* package a; message Pagination<T> { T item; }
\*            message Response<T, E> { T data; E error; }
\*            service S { rpc test(Response<Pagination<int32>, Date>)
\*                          returns (Pagination<string>); }
SrcPagination ==
  <<Kw("package"), Id("a"), Sym(";"),
    Kw("message"), Id("Pagination"), Sym("<"), Id("T"), Sym(">"), Sym("{"),
      Id("T"), Id("item"), Sym(";"), Sym("}"),
    Kw("message"), Id("Response"), Sym("<"), Id("T"), Sym(","), Id("E"),
      Sym(">"), Sym("{"),
      Id("T"), Id("data"), Sym(";"),
      Id("E"), Id("error"), Sym(";"), Sym("}"),
    Kw("service"), Id("S"), Sym("{"),
      Kw("rpc"), Id("test"), Sym("("),
        Id("Response"), Sym("<"),
          Id("Pagination"), Sym("<"), Id("int32"), Sym(">"), Sym(","),
          Id("Date"), Sym(">"), Sym(")"),
      Kw("returns"), Sym("("),
        Id("Pagination"), Sym("<"), Id("string"), Sym(">"), Sym(")"), Sym(";"),
    Sym("}")>>

\* package a; enum TestEnum { A = 0, B = 4, C = 4 } enum Plain { X, Y = 2, Z }
SrcTestEnum ==
  <<Kw("package"), Id("a"), Sym(";"),
    Kw("enum"), Id("TestEnum"), Sym("{"),
      Id("A"), Sym("="), Num(0), Sym(","),
      Id("B"), Sym("="), Num(4), Sym(","),
      Id("C"), Sym("="), Num(4), Sym("}"),
    Kw("enum"), Id("Plain"), Sym("{"),
      Id("X"), Sym(","),
      Id("Y"), Sym("="), Num(2), Sym(","),
      Id("Z"), Sym("}")>>

\* x
SrcStray == <<Id("x")>>

Sources ==
  <<SrcFruit, SrcBox, SrcOrdinals, SrcGeneric, SrcUnresolved, SrcNoPackage,
    SrcMonotonic, SrcMissing, SrcArity, SrcPagination, SrcTestEnum,
    SrcStray>>

\* the longest sequence of operations on one analyzer
MaxOps == 3

\* the token texts of the files, given which source each holds
contentsOf(d) ==
  [k \in 1..Len(Files) |-> IF d[k] = 0 THEN <<>> ELSE Sources[d[k]]]

(***************************************************************************)
(* The analyzer as a state machine: the command line compiles a fileset    *)
(* on a new analyzer; the language server loads documents; a client calls  *)
(* analyze().                                                              *)
(***************************************************************************)
IdleParser ==
  /\ ptoks = <<eofToken("", 1)>>
  /\ pst = NewParser
  /\ ppc = "done"
  /\ pnodes = <<>>
  /\ pcur = NoNode
  /\ pbefore = [top |-> 0, body |-> 0]

Init ==
  IdleAnalyzer /\ IdleParser /\ IdleCodec /\ IdleTokenizer /\ IdleLsp

analyzerState ==
  [defs |-> definitions, items |-> items, heap |-> heap, threw |-> threw]

becomes(a) ==
  /\ definitions' = a.defs
  /\ items' = a.items
  /\ heap' = a.heap
  /\ threw' = a.threw

\* index.ts main() on the files d names
Main(d) ==
  /\ last.op = "none"
  /\ \E a \in {main(contentsOf(d))} : becomes(a)
  /\ docs' = d
  /\ last' = [op |-> "main", file |-> ""]
  /\ ops' = ops + 1
  /\ UNCHANGED <<pvars, codec, tz, lsp>>

\* documentChanged / the initial load: loadDocument(uri, content); it is a
\* "reload" when the content is the one the analyzer already holds
LoadDocument(k, c) ==
  /\ ops < MaxOps
  /\ threw # "exit"
  /\ \E a \in {loadDocument(analyzerState, Files[k], Sources[c])} :
       /\ becomes(a)
       /\ lsp' = IF a.threw # "" THEN lsp
                 ELSE [lsp EXCEPT !.published =
                         sendDiagnostics(a.defs, a.items, @)]
  /\ docs' = [docs EXCEPT ![k] = c]
  /\ last' = [op |-> IF docs[k] = c THEN "reload" ELSE "load",
              file |-> Files[k]]
  /\ ops' = ops + 1
  /\ UNCHANGED <<pvars, codec, tz>>

\* a call of the public SemanticAnalyzer.analyze()
Analyze ==
  /\ ops < MaxOps
  /\ threw # "exit"
  /\ \E a \in {analyze([analyzerState EXCEPT !.threw = ""])} : becomes(a)
  /\ last' = [op |-> "analyze", file |-> ""]
  /\ ops' = ops + 1
  /\ UNCHANGED <<docs, pvars, codec, tz, lsp>>

Next ==
  \/ \E d \in [1..Len(Files) -> 0..Len(Sources)] :
       (\E k \in 1..Len(Files) : d[k] # 0) /\ Main(d)
  \/ \E k \in 1..Len(Files), c \in 1..Len(Sources) : LoadDocument(k, c)
  \/ Analyze

Spec == Init /\ [][Next]_vars

(***************************************************************************)
(* What is compared when two analyzer states are compared: the content of  *)
(* the objects, not their identities.                                      *)
(***************************************************************************)
RECURSIVE StripType(_)
StripType(t) ==
  [typeKind |-> t.typeKind, kind |-> t.kind, packageId |-> t.packageId,
   name |-> t.name, args |-> [k \in 1..Len(t.args) |-> StripType(t.args[k])]]

StripArgs(args) == [k \in 1..Len(args) |-> StripType(args[k])]

fieldView(kind, f) ==
  IF kind = "message"
    THEN [name |-> f.name, ordinal |-> f.ordinal, optional |-> f.optional,
          type |-> StripType(f.type)]
    ELSE [value |-> f]

rpcView(r) ==
  [path |-> r.path,
   request |-> [stream |-> r.request.stream, type |-> StripType(r.request.type)],
   response |-> [stream |-> r.response.stream,
                 type |-> StripType(r.response.type)]]

\* the realization set of a definition
realized(d) ==
  {StripArgs(d.genericInstances[n]) : n \in 1..Len(d.genericInstances)}

definitionView(d) ==
  [kind |-> d.kind, name |-> d.name, file |-> d.file,
   packageId |-> d.packageId, args |-> StripArgs(d.args),
   fields |-> [k \in 1..Len(d.fields) |-> fieldView(d.kind, d.fields[k])],
   rpcs |-> [k \in 1..Len(d.rpcs) |-> rpcView(d.rpcs[k])],
   genericInstances |-> realized(d)]

analyzerView(defs, its) ==
  [definitions |-> {definitionView(defs[k]) : k \in 1..Len(defs)},
   diagnostics |-> {its[k] : k \in 1..Len(its)}]

\* the last operation was a whole analysis (main or loadDocument) that ran
\* to its end
Analyzed == last.op \in {"main", "load", "reload"} /\ threw = ""

(***************************************************************************)
(* C1: removing a file of an analyzed fileset and re-inserting the same    *)
(* content (loadDocument with the content the analyzer already holds)      *)
(* leaves the analyzer in the state of a fresh compile of the fileset: the *)
(* same definitions, with their fields, RPCs and realization sets, and the *)
(* same diagnostics.                                                       *)
(***************************************************************************)
C1_ReloadEqualsFreshCompile ==
  (last.op = "reload" /\ threw = "")
    => \E fresh \in {main(contentsOf(docs))} :
         analyzerView(definitions, items) = analyzerView(fresh.defs, fresh.items)

(***************************************************************************)
(* C2: analyze() is idempotent: on a well-formed source (one analyzed      *)
(* without a diagnostic) a second call of analyze() leaves the             *)
(* definitions, the diagnostics and the realization sets as the first call *)
(* left them.                                                              *)
(***************************************************************************)
C2_SecondAnalyzeChangesNothing ==
  (Analyzed /\ items = <<>> /\ last'.op = "analyze")
    => analyzerView(definitions', items') = analyzerView(definitions, items)

C2_AnalyzeIdempotent == [][C2_SecondAnalyzeChangesNothing]_vars

(***************************************************************************)
(* Realization (src/src/analyzer.ts, lines 521-550).                       *)
(***************************************************************************)
\* `Object.fromEntries(definition.args.map((a, i) => [a.name, args[i]]))`
\* `args[i]` past the end of args is undefined
genericsMapOf(definition, args) ==
  [n \in {definition.args[k].name : k \in 1..Len(definition.args)} |->
     With(CHOOSE k \in 1..Len(definition.args) :
            /\ definition.args[k].name = n
            /\ \A j \in (k + 1)..Len(definition.args) :
                 definition.args[j].name # n,
          LAMBDA i : IF i <= Len(args) THEN args[i] ELSE NoType)]

RECURSIVE realizeType(_, _)
realizeType(type, genericsMap) ==
  IF type.typeKind = "generic"
    THEN IF type.name \in DOMAIN genericsMap THEN genericsMap[type.name]
         ELSE NoType
  ELSE [type EXCEPT !.ref = 0,
          !.args = [k \in 1..Len(type.args) |->
                      realizeType(type.args[k], genericsMap)]]

realizeMessageDefinition(definition, args) ==
  [definition EXCEPT
     !.fields = [k \in 1..Len(definition.fields) |->
                   [definition.fields[k] EXCEPT
                      !.type = realizeType(@, genericsMapOf(definition, args))]],
     !.args = args]

(***************************************************************************)
(* C3: after analysis, the realization set of every message with at least  *)
(* one formal generic parameter is exactly the set of argument tuples      *)
(* reachable from the RPC signatures, the tuples reached through the field *)
(* types of realized messages included (a fixpoint): none missing, none    *)
(* extra.                                                                  *)
(***************************************************************************)
\* the message instantiations that occur in a type, at any depth
RECURSIVE C3_MessagesIn(_)
C3_MessagesIn(t) ==
  (IF t.kind = "message" THEN {StripType(t)} ELSE {})
  \cup UNION {C3_MessagesIn(t.args[k]) : k \in 1..Len(t.args)}

\* the message instantiations in the RPC signatures of the services
C3_InSignatures ==
  UNION {UNION {C3_MessagesIn(definitions[d].rpcs[k].request.type)
                  \cup C3_MessagesIn(definitions[d].rpcs[k].response.type) :
                k \in 1..Len(definitions[d].rpcs)} :
         d \in {e \in 1..Len(definitions) : definitions[e].kind = "service"}}

\* the message instantiations in the field types of the realized message m
C3_InFields(m) ==
  LET ds == {d \in 1..Len(definitions) :
               /\ definitions[d].kind = "message"
               /\ definitions[d].name = m.name
               /\ definitions[d].packageId = m.packageId
               /\ Len(definitions[d].args) = Len(m.args)}
  IN UNION {UNION {C3_MessagesIn(f.type) :
                   f \in {realizeMessageDefinition(definitions[d], m.args).fields[k] :
                          k \in 1..Len(definitions[d].fields)}} :
            d \in ds}

RECURSIVE C3_Closure(_)
C3_Closure(S) ==
  With(S \cup UNION {C3_InFields(m) : m \in S}, LAMBDA more :
    IF more = S THEN S ELSE C3_Closure(more))

C3_RealizationIsClosure ==
  Analyzed =>
    \E reachable \in {C3_Closure(C3_InSignatures)} :
      \A d \in 1..Len(definitions) :
        (definitions[d].kind = "message" /\ Len(definitions[d].args) >= 1)
          => realized(definitions[d])
               = {m.args : m \in {n \in reachable :
                                    /\ n.name = definitions[d].name
                                    /\ n.packageId = definitions[d].packageId}}

(***************************************************************************)
(* C4: a realization set never holds two argument tuples that are          *)
(* structurally equal, also when the same instantiation occurs in several  *)
(* RPC signatures or several times in one.                                 *)
(***************************************************************************)
C4_NoDuplicateTuples ==
  Analyzed =>
    \A d \in 1..Len(definitions) :
      \A i, j \in 1..Len(definitions[d].genericInstances) :
        i # j => StripArgs(definitions[d].genericInstances[i])
                   # StripArgs(definitions[d].genericInstances[j])

(***************************************************************************)
(* C6: analysis never aborts: analyze() runs to its end over all           *)
(* definitions, also for a service whose RPC request or response type is   *)
(* incomplete or does not resolve; it reports diagnostics and does not     *)
(* throw.                                                                  *)
(***************************************************************************)
C6_AnalyzeNeverThrows == threw # "analyze"

(***************************************************************************)
(* C9: a type reference with a package prefix resolves to the definition   *)
(* whose packageId equals the prefix when there is one (direct match       *)
(* first): the field is stored with that type and no diagnostic is raised  *)
(* on the reference.                                                       *)
(***************************************************************************)
\* the field node is `prefix.Name name;` and a non-service definition Name
\* of package `prefix` is among the definitions
C9_HasDirectMatch(field) ==
  /\ field.isComplete
  /\ Len(field.type.identifier.tokens) = 3
  /\ \E e \in 1..Len(definitions) :
       /\ definitions[e].kind # "service"
       /\ definitions[e].name = field.type.identifier.tokens[3].value
       /\ definitions[e].packageId = field.type.identifier.tokens[1].value

C9_PrefixResolvesDirect ==
  Analyzed =>
    \A d \in 1..Len(definitions) :
      definitions[d].kind = "message" =>
        \A k \in 1..Len(definitions[d].astNode.fields) :
          C9_HasDirectMatch(definitions[d].astNode.fields[k]) =>
            /\ \E f \in 1..Len(definitions[d].fields) :
                 /\ definitions[d].fields[f].name
                      = definitions[d].astNode.fields[k].name.value
                 /\ definitions[d].fields[f].type.name
                      = definitions[d].astNode.fields[k].type.identifier.tokens[3].value
                 /\ definitions[d].fields[f].type.packageId
                      = definitions[d].astNode.fields[k].type.identifier.tokens[1].value
            /\ ~\E n \in 1..Len(items) :
                 /\ items[n].file = definitions[d].file
                 /\ items[n].at
                      = definitions[d].astNode.fields[k].type.identifier.tokens[1].at

(***************************************************************************)
(* C10: field ordinals come from a counter k that starts at 1; a field     *)
(* with an explicit ordinal n larger than k gets n and resets k to n, so   *)
(* the fields `a; b = 5; c;` are stored with the ordinals 1, 5, 6.         *)
(***************************************************************************)
C10_ExplicitOrdinalResetsCounter ==
  Analyzed =>
    \A d \in 1..Len(definitions) :
      (definitions[d].kind = "message" /\ definitions[d].name = "Ord") =>
        [k \in 1..Len(definitions[d].fields) |-> definitions[d].fields[k].ordinal]
          = <<1, 5, 6>>

(***************************************************************************)
(* Code generation (src/src/codegen).  A GenNode is the record the         *)
(* generator builds; the functions it holds are kept as the text they      *)
(* splice into the emitted TypeScript.  A value expression (the `value`    *)
(* string the generator threads through) is the sequence of its lexical    *)
(* pieces: "value.xs[value_xs_i]" is                                       *)
(* <<"value", ".", "xs", "[", "value_xs_i", "]">>.                         *)
(***************************************************************************)

\* `value.replaceAll("[", "_").replaceAll("]", "").replaceAll(".", "_")`
safeIdentifier(value) ==
  SelectSeq([i \in 1..Len(value) |->
               IF value[i] \in {"[", "."} THEN "_" ELSE value[i]],
            LAMBDA piece : piece # "]")

\* writer: `writer.uint32(${value ? 1 : 0});` where value is the expression
\* text, so the choice between 1 and 0 is made when the code is emitted
BOOL_NODE == [type |-> "primitive", writer |-> "uint32(${value ? 1 : 0})",
              reader |-> "!!reader.uint32()", messageName |-> ""]

DATE_NODE == [type |-> "primitive", writer |-> "string(toISOString)",
              reader |-> "new Date(reader.string())", messageName |-> ""]

primitiveNode(type) ==
  [type |-> "primitive", writer |-> type, reader |-> type, messageName |-> ""]

nullableNode(sub) == [type |-> "nullable", sub |-> sub]

lenNode(sub) == [type |-> "len", sub |-> sub]

arrayNode(sub) == lenNode([type |-> "array", sub |-> sub])

\* `field` is the text the accessor appends to the expression; `condition`
\* is the text compared with the field, "" when there is no condition
fieldNode(ordinal, field, typed, condition) ==
  [type |-> "field", node |-> typed.node, ordinal |-> ordinal,
   wireType |-> typed.wireType, field |-> field, condition |-> condition]

\* `initializeValue` is the text assigned to the value, "" for `() => []`
structNode(initializeValue, fields) ==
  lenNode([type |-> "struct", initializeValue |-> initializeValue,
           fields |-> fields])

mapValueNode(mapSerialize, mapDeserialize, node) ==
  [type |-> "map-value", node |-> node, mapSerialize |-> mapSerialize,
   mapDeserialize |-> mapDeserialize]

\* calls `M["serialize"](writer, value)` and `M["deserialize"](reader, end)`
subMessageNode(messageName) ==
  lenNode([type |-> "primitive", writer |-> "serialize",
           reader |-> "deserialize", messageName |-> messageName])

mapNode(key, value) ==
  mapValueNode("", "new Map",
    arrayNode(structNode("[]",
      <<fieldNode(1, <<"[", "0", "]">>, key, ""),
        fieldNode(2, <<"[", "1", "]">>, value, "")>>)))

RECURSIVE unwrapLen(_)
unwrapLen(genNode) ==
  IF genNode.type = "len" THEN unwrapLen(genNode.sub)
  ELSE IF genNode.type = "map-value"
    THEN [genNode EXCEPT !.node = unwrapLen(genNode.node)]
  ELSE genNode

BUILTIN_WIRE_TYPE(name) ==
  CASE name \in {"float", "fixed32", "sfixed32"} -> 5
    [] name \in {"double", "fixed64", "sfixed64"} -> 1
    [] name \in {"string", "bytes", "Date"} -> 2
    [] OTHER -> 0

\* typeToGenNode(context, type), with context.strategy as `strategy`; the
\* kind of a type is the kind of its definition
RECURSIVE typeToGenNode(_, _)
typeToGenNode(strategy, type) ==
  IF type.kind = "builtin" THEN
    IF Len(type.args) = 0 THEN
      IF type.name = "bool" THEN [node |-> BOOL_NODE, wireType |-> 0]
      ELSE IF type.name = "Date" THEN [node |-> DATE_NODE, wireType |-> 2]
      ELSE IF type.name = "any"
        THEN [node |-> subMessageNode("Builtin__Any"), wireType |-> 2]
      ELSE [node |-> primitiveNode(type.name),
            wireType |-> BUILTIN_WIRE_TYPE(type.name)]
    ELSE IF type.name = "Array" THEN
      With(typeToGenNode(strategy, type.args[1]).node, LAMBDA sub :
        IF sub.type = "array" /\ strategy = "native"
          THEN [node |-> arrayNode(structNode("",
                           <<fieldNode(1, <<>>,
                               [wireType |-> 2, node |-> arrayNode(sub)],
                               "")>>)),
                wireType |-> 2]
          ELSE [node |-> arrayNode(sub), wireType |-> 2])
    ELSE IF type.name = "Map" THEN
      [node |-> mapNode(typeToGenNode(strategy, type.args[1]),
                        typeToGenNode(strategy, type.args[2])),
       wireType |-> 2]
    ELSE \* Nullable
      With(typeToGenNode(strategy, type.args[1]), LAMBDA sub :
        IF strategy = "native"
          THEN [node |-> structNode("null",
                           <<fieldNode(1, <<>>, sub, "!== null")>>),
                wireType |-> 2]
          ELSE [node |-> nullableNode(sub.node), wireType |-> 2])
  ELSE IF type.kind = "enum" THEN
    [node |-> mapValueNode("as number", "", primitiveNode("uint32")),
     wireType |-> 0]
  ELSE IF type.kind = "string-enum" THEN
    [node |-> primitiveNode("string"), wireType |-> 2]
  ELSE \* message
    [node |-> subMessageNode(type.name), wireType |-> 2]

\* the genNode of generateMessageObjectMethods for a message definition
messageGenNode(strategy, definition) ==
  unwrapLen(structNode("",
    [k \in 1..Len(definition.fields) |->
       fieldNode(definition.fields[k].ordinal,
                 <<".", definition.fields[k].name>>,
                 typeToGenNode(strategy, definition.fields[k].type),
                 IF definition.fields[k].optional THEN "!== undefined"
                 ELSE "")]))

(***************************************************************************)
(* The values the emitted code works on, and the reads and writes of the   *)
(* accessors the generator splices into it.  A byte of the wire is a       *)
(* number below 128, so the varint of every number written is one byte.    *)
(***************************************************************************)
Undef == [t |-> "undefined"]

Null == [t |-> "null"]

Number(n) == [t |-> "number", n |-> n]

Boolean(b) == [t |-> "boolean", b |-> b]

StringOf(bytes) == [t |-> "string", bytes |-> bytes]

DateOf(iso) == [t |-> "Date", iso |-> iso]

ArrayOf(elems) == [t |-> "array", items |-> elems]

\* a Map, as the sequence of its entries in insertion order
MapOf(entries) == [t |-> "Map", entries |-> entries]

\* an object, as the function from the properties it has to their values
ObjectOf(props) == [t |-> "object", props |-> props]

EmptyObject == ObjectOf([name \in {} |-> Undef])

ThrownTypeError == [t |-> "TypeError"]

indexOf(piece) == IF piece = "0" THEN 1 ELSE 2

\* the runtime value of `${value}${field}` when `value` evaluates to v
get(v, field) ==
  IF field = <<>> THEN v
  ELSE IF v.t \in {"undefined", "null"} THEN ThrownTypeError
  ELSE IF field[1] = "."
    THEN IF v.t = "object" /\ field[2] \in DOMAIN v.props
           THEN v.props[field[2]] ELSE Undef
  ELSE IF v.t = "array" /\ indexOf(field[2]) <= Len(v.items)
    THEN v.items[indexOf(field[2])] ELSE Undef

\* the value of `value` after `${value}${field} = x`
put(v, field, x) ==
  IF field = <<>> THEN x
  ELSE IF v.t \in {"undefined", "null"} THEN ThrownTypeError
  ELSE IF field[1] = "."
    THEN IF v.t = "object"
           THEN ObjectOf([name \in DOMAIN v.props \cup {field[2]} |->
                            IF name = field[2] THEN x ELSE v.props[name]])
           ELSE v
  ELSE IF v.t = "array"
    THEN ArrayOf([i \in 1..(IF indexOf(field[2]) > Len(v.items)
                             THEN indexOf(field[2]) ELSE Len(v.items)) |->
                    IF i = indexOf(field[2]) THEN x
                    ELSE IF i <= Len(v.items) THEN v.items[i] ELSE Undef])
    ELSE v

\* `for (const item of value)`: the items of an array, the [key, value]
\* pairs of a Map
iterate(v) ==
  IF v.t = "array" THEN v.items
  ELSE [i \in 1..Len(v.entries) |-> ArrayOf(v.entries[i])]

\* `new Map(value)` on an array of pairs: a later pair with the same key
\* replaces the value of the earlier one
RECURSIVE newMap(_, _)
newMap(pairs, entries) ==
  IF pairs = <<>> THEN MapOf(entries)
  ELSE newMap(Tail(pairs),
         IF \E i \in 1..Len(entries) : entries[i][1] = Head(pairs).items[1]
           THEN [i \in 1..Len(entries) |->
                   IF entries[i][1] = Head(pairs).items[1]
                     THEN Head(pairs).items ELSE entries[i]]
           ELSE Append(entries, Head(pairs).items))

\* `${field} !== undefined`, `${field} !== null`
holds(condition, f) ==
  IF condition = "!== undefined" THEN f # Undef ELSE f # Null

\* `let ${value}_: any = ...` declares a variable only when the expression
\* is a plain identifier
isIdentifier(value) == \A i \in 1..Len(value) : value[i] \notin {".", "[", "]"}

(***************************************************************************)
(* The definitions code is generated for, as the analyzer stores them:     *)
(*   enum Color { Red, Green }                                             *)
(*   message M { optional Array<int32> xs; }                               *)
(*   message B { bool flag; int32 n; }                                     *)
(*   message E { Color c; }                                                *)
(*   message W { M m; optional Nullable<string> s; }                       *)
(***************************************************************************)
Builtin(name, args) ==
  RealType("builtin", BUILTIN_PACKAGE, name, args, FALSE, 0, 0)

MessageField(name, ordinal, type, optional) ==
  [name |-> name, ordinal |-> ordinal, type |-> type, optional |-> optional]

ColorDefinition ==
  [Definition("enum", "Color", "f1", NoNode, "a", 1) EXCEPT
     !.fields = <<[name |-> "Red", value |-> 0],
                  [name |-> "Green", value |-> 1]>>]

MDefinition ==
  [Definition("message", "M", "f1", NoNode, "a", 2) EXCEPT
     !.fields = <<MessageField("xs", 1,
                    Builtin("Array", <<Builtin("int32", <<>>)>>), TRUE)>>]

BDefinition ==
  [Definition("message", "B", "f1", NoNode, "a", 3) EXCEPT
     !.fields = <<MessageField("flag", 1, Builtin("bool", <<>>), FALSE),
                  MessageField("n", 2, Builtin("int32", <<>>), FALSE)>>]

EDefinition ==
  [Definition("message", "E", "f1", NoNode, "a", 4) EXCEPT
     !.fields = <<MessageField("c", 1, asType(ColorDefinition), FALSE)>>]

WDefinition ==
  [Definition("message", "W", "f1", NoNode, "a", 5) EXCEPT
     !.fields = <<MessageField("m", 1, asType(MDefinition), FALSE),
                  MessageField("s", 2,
                    Builtin("Nullable", <<Builtin("string", <<>>)>>), TRUE)>>]

CodecDefinitions ==
  <<ColorDefinition, MDefinition, BDefinition, EDefinition, WDefinition>>

\* the definition behind the name the emitted code calls a message by
definitionOf(messageName) ==
  CodecDefinitions[CHOOSE i \in 1..Len(CodecDefinitions) :
                     CodecDefinitions[i].name = messageName]

(***************************************************************************)
(* serializeGenNode (src/src/codegen/serialize-ast.ts): what the code      *)
(* emitted for (genNode, value) writes when the expression `value`         *)
(* evaluates to v.  `how` is "" when the code runs to its end.             *)
(***************************************************************************)
Written(bytes) == [how |-> "", bytes |-> bytes]

\* the bytes of the first statement, then those of the rest
after(bytes, w) == [w EXCEPT !.bytes = bytes \o @]

RECURSIVE serializeGenNode(_, _, _, _)
RECURSIVE serializePrimitiveGenNode(_, _, _, _)
RECURSIVE serializeArrayGenNode(_, _, _, _, _)
RECURSIVE serializeStructGenNode(_, _, _, _, _)

\* genNode.writer(value), run
serializePrimitiveGenNode(strategy, genNode, value, v) ==
  IF genNode = BOOL_NODE
    \* the emitted statement is writer.uint32(1) for every non-empty
    \* expression text
    THEN Written(<<IF value # <<>> THEN 1 ELSE 0>>)
  ELSE IF genNode.messageName # ""
    THEN serializeGenNode(strategy,
           messageGenNode(strategy, definitionOf(genNode.messageName)),
           <<"value">>, v)
  ELSE IF genNode = DATE_NODE
    THEN IF v.t = "Date" THEN Written(<<Len(v.iso)>> \o v.iso)
         ELSE [how |-> "TypeError", bytes |-> <<>>]
  ELSE IF genNode.writer \in {"string", "bytes"}
    THEN IF v.t = "string" THEN Written(<<Len(v.bytes)>> \o v.bytes)
         ELSE [how |-> "TypeError", bytes |-> <<>>]
  ELSE IF v.t = "number" THEN Written(<<v.n>>)
  ELSE [how |-> "TypeError", bytes |-> <<>>]

\* the for loop emitted by serializeArrayGenNode, from item k on
serializeArrayGenNode(strategy, genNode, value, elems, k) ==
  IF k > Len(elems) THEN Written(<<>>)
  ELSE With(serializeGenNode(strategy, genNode.sub,
                             safeIdentifier(value) \o <<"_item">>, elems[k]),
            LAMBDA w :
         IF w.how # "" THEN w
         ELSE after(w.bytes,
                serializeArrayGenNode(strategy, genNode, value, elems, k + 1)))

\* the statements of the fields of a struct, from field k on
serializeStructGenNode(strategy, genNode, value, v, k) ==
  IF k > Len(genNode.fields) THEN Written(<<>>)
  ELSE With(serializeGenNode(strategy, genNode.fields[k], value, v),
            LAMBDA w :
         IF w.how # "" THEN w
         ELSE after(w.bytes,
                serializeStructGenNode(strategy, genNode, value, v, k + 1)))

serializeGenNode(strategy, genNode, value, v) ==
  IF genNode.type = "primitive"
    THEN serializePrimitiveGenNode(strategy, genNode, value, v)
  ELSE IF genNode.type = "array"
    THEN IF v.t \in {"array", "Map"}
           THEN serializeArrayGenNode(strategy, genNode, value, iterate(v), 1)
           ELSE [how |-> "TypeError", bytes |-> <<>>]
  ELSE IF genNode.type = "len"
    \* writer.fork(); ...; writer.ldelim();
    THEN With(serializeGenNode(strategy, genNode.sub, value, v), LAMBDA w :
           after(<<Len(w.bytes)>>, w))
  ELSE IF genNode.type = "nullable"
    THEN IF v = Null THEN Written(<<0>>)
         ELSE after(<<1>>, serializeGenNode(strategy, genNode.sub, value, v))
  ELSE IF genNode.type = "struct"
    THEN serializeStructGenNode(strategy, genNode, value, v, 1)
  ELSE IF genNode.type = "field"
    THEN With(get(v, genNode.field), LAMBDA f :
           IF f = ThrownTypeError THEN [how |-> "TypeError", bytes |-> <<>>]
           ELSE IF genNode.condition # "" /\ ~holds(genNode.condition, f)
             THEN Written(<<>>)
           ELSE after(<<genNode.ordinal * 8 + genNode.wireType>>,
                  serializeGenNode(strategy, genNode.node,
                                   value \o genNode.field, f)))
  \* map-value: `${value} as number` does not change the value
  ELSE serializeGenNode(strategy, genNode.node,
         IF genNode.mapSerialize # "" THEN value \o <<"_">> ELSE value, v)

\* whether every `let ${value}_: any = ...` that serializeMapValueGenNode
\* emits for (genNode, value) declares an identifier, so that the emitted
\* module is TypeScript
RECURSIVE declaresIdentifiers(_, _, _)
declaresIdentifiers(strategy, genNode, value) ==
  IF genNode.type = "primitive"
    THEN genNode.messageName = ""
         \/ declaresIdentifiers(strategy,
              messageGenNode(strategy, definitionOf(genNode.messageName)),
              <<"value">>)
  ELSE IF genNode.type = "array"
    THEN declaresIdentifiers(strategy, genNode.sub,
                             safeIdentifier(value) \o <<"_item">>)
  ELSE IF genNode.type \in {"len", "nullable"}
    THEN declaresIdentifiers(strategy, genNode.sub, value)
  ELSE IF genNode.type = "struct"
    THEN \A k \in 1..Len(genNode.fields) :
           declaresIdentifiers(strategy, genNode.fields[k], value)
  ELSE IF genNode.type = "field"
    THEN declaresIdentifiers(strategy, genNode.node, value \o genNode.field)
  ELSE /\ genNode.mapSerialize # "" => isIdentifier(value)
       /\ declaresIdentifiers(strategy, genNode.node,
            IF genNode.mapSerialize # "" THEN value \o <<"_">> ELSE value)

(***************************************************************************)
(* deserializeGenNode (src/src/codegen/gen-ast.ts): what the code emitted  *)
(* for (genNode, value) does to the reader and to `value`.  r holds the    *)
(* reader's position, the current value of the expression and, in `how`,   *)
(* the error thrown, if any; `end` is the `end` in scope.                  *)
(***************************************************************************)
Thrown(r, how) == [r EXCEPT !.how = how]

\* reader.skipType(wireType), as the emitted code calls it
skipType(wire, r, wireType) ==
  With(CASE wireType = 0 -> r.pos + 1
         [] wireType = 1 -> r.pos + 8
         [] wireType = 2 /\ r.pos < Len(wire) -> r.pos + 1 + wire[r.pos + 1]
         [] wireType = 5 -> r.pos + 4
         [] OTHER -> Len(wire) + 1, LAMBDA pos :
    IF pos > Len(wire) THEN Thrown(r, "RangeError")
    ELSE [r EXCEPT !.pos = pos])

RECURSIVE deserializeGenNode(_, _, _, _, _)
RECURSIVE deserializePrimitiveGenNode(_, _, _, _, _)
RECURSIVE deserializeArrayGenNode(_, _, _, _, _)
RECURSIVE deserializeStructGenNode(_, _, _, _, _)
RECURSIVE deserializeFieldGenNode(_, _, _, _, _)

\* genNode.reader(value), run
deserializePrimitiveGenNode(strategy, genNode, wire, end, r) ==
  IF genNode.messageName # ""
    \* M["deserialize"](reader, end): `let value: any = {};`, the struct,
    \* `return value;`
    THEN deserializeGenNode(strategy,
           messageGenNode(strategy, definitionOf(genNode.messageName)),
           wire, end, [r EXCEPT !.value = EmptyObject])
  ELSE IF r.pos >= Len(wire) THEN Thrown(r, "RangeError")
  ELSE IF genNode = BOOL_NODE
    THEN [r EXCEPT !.pos = @ + 1, !.value = Boolean(wire[r.pos + 1] # 0)]
  ELSE IF genNode = DATE_NODE \/ genNode.reader \in {"string", "bytes"}
    THEN IF r.pos + 1 + wire[r.pos + 1] > Len(wire)
           THEN Thrown(r, "RangeError")
           ELSE With(SubSeq(wire, r.pos + 2, r.pos + 1 + wire[r.pos + 1]),
                     LAMBDA bytes :
                  [r EXCEPT !.pos = @ + 1 + Len(bytes),
                            !.value = IF genNode = DATE_NODE
                                        THEN DateOf(bytes)
                                        ELSE StringOf(bytes)])
  ELSE [r EXCEPT !.pos = @ + 1, !.value = Number(wire[r.pos + 1])]

\* the while loop emitted by deserializeArrayGenNode; r.value is the array
\* read so far
deserializeArrayGenNode(strategy, genNode, wire, end, r) ==
  IF r.pos >= end THEN r
  ELSE With(deserializeGenNode(strategy, genNode.sub, wire, end,
                               [r EXCEPT !.value = Undef]), LAMBDA x :
         IF x.how # "" THEN x
         ELSE IF x.pos = r.pos THEN Thrown(x, "loops forever")
         ELSE deserializeArrayGenNode(strategy, genNode, wire, end,
                [x EXCEPT !.value = ArrayOf(Append(r.value.items, x.value))]))

\* the branch `if (idx === ordinal) { ... }` of the first field, from field
\* k on, that has the ordinal read; reader.skipType when there is none
deserializeFieldGenNode(strategy, genNode, wire, end, q) ==
  IF q.k > Len(genNode.fields) THEN skipType(wire, q.r, q.tag % 8)
  ELSE IF q.tag \div 8 # genNode.fields[q.k].ordinal
    THEN deserializeFieldGenNode(strategy, genNode, wire, end,
                                 [q EXCEPT !.k = @ + 1])
  ELSE With(get(q.r.value, genNode.fields[q.k].field), LAMBDA f :
         IF f = ThrownTypeError THEN Thrown(q.r, "TypeError")
         ELSE With(deserializeGenNode(strategy, genNode.fields[q.k].node,
                     wire, end, [q.r EXCEPT !.value = f]), LAMBDA x :
                IF x.how # "" THEN x
                ELSE [x EXCEPT !.value =
                        put(q.r.value, genNode.fields[q.k].field, x.value)]))

\* the while loop emitted by deserializeStructGenNode
deserializeStructGenNode(strategy, genNode, wire, end, r) ==
  IF r.pos >= end THEN r
  ELSE IF r.pos >= Len(wire) THEN Thrown(r, "RangeError")
  ELSE With(deserializeFieldGenNode(strategy, genNode, wire, end,
              [k |-> 1, tag |-> wire[r.pos + 1],
               r |-> [r EXCEPT !.pos = @ + 1]]), LAMBDA x :
         IF x.how # "" THEN x
         ELSE deserializeStructGenNode(strategy, genNode, wire, end, x))

deserializeGenNode(strategy, genNode, wire, end, r) ==
  IF genNode.type = "primitive"
    THEN deserializePrimitiveGenNode(strategy, genNode, wire, end, r)
  ELSE IF genNode.type = "array"
    THEN deserializeArrayGenNode(strategy, genNode, wire, end,
                                 [r EXCEPT !.value = ArrayOf(<<>>)])
  ELSE IF genNode.type = "len"
    \* const end = reader.uint32() + reader.pos;
    THEN IF r.pos >= Len(wire) THEN Thrown(r, "RangeError")
         ELSE deserializeGenNode(strategy, genNode.sub, wire,
                wire[r.pos + 1] + r.pos + 1, [r EXCEPT !.pos = @ + 1])
  ELSE IF genNode.type = "nullable"
    THEN IF r.pos >= Len(wire) THEN Thrown(r, "RangeError")
         ELSE IF wire[r.pos + 1] = 0
           THEN [r EXCEPT !.pos = @ + 1, !.value = Null]
         ELSE deserializeGenNode(strategy, genNode.sub, wire, end,
                                 [r EXCEPT !.pos = @ + 1])
  ELSE IF genNode.type = "struct"
    THEN deserializeStructGenNode(strategy, genNode, wire, end,
           [r EXCEPT !.value =
              CASE genNode.initializeValue = "null" -> Null
                [] genNode.initializeValue = "[]" -> ArrayOf(<<>>)
                [] OTHER -> @])
  \* map-value
  ELSE With(deserializeGenNode(strategy, genNode.node, wire, end, r),
            LAMBDA x :
         IF x.how # "" \/ genNode.mapDeserialize = "" THEN x
         ELSE IF x.value.t # "array" THEN Thrown(x, "TypeError")
         ELSE [x EXCEPT !.value = newMap(x.value.items, <<>>)])

(***************************************************************************)
(* One use of the pair generateRPCDefinition emits for a type: the         *)
(* requestSerialize of a value, then the requestDeserialize of the bytes.  *)
(***************************************************************************)
\* the longest array or Map
MaxItems == 3

\* the largest int32
MaxNumber == 3

Strategies == {"native", "evolved"}

CodecTypes ==
  {Builtin("int32", <<>>), Builtin("bool", <<>>), Builtin("string", <<>>),
   asType(ColorDefinition),
   Builtin("Array", <<Builtin("int32", <<>>)>>),
   Builtin("Array", <<Builtin("Array", <<Builtin("int32", <<>>)>>)>>),
   Builtin("Array", <<Builtin("Nullable", <<Builtin("int32", <<>>)>>)>>),
   Builtin("Array", <<asType(ColorDefinition)>>),
   Builtin("Nullable", <<Builtin("int32", <<>>)>>),
   Builtin("Nullable", <<Builtin("Array", <<Builtin("int32", <<>>)>>)>>),
   Builtin("Map", <<Builtin("string", <<>>), Builtin("int32", <<>>)>>),
   asType(MDefinition), asType(BDefinition), asType(EDefinition),
   asType(WDefinition)}

\* the values of a type with arrays and Maps of at most n items, the items
\* of an array being one shorter than the array may be; an absent optional
\* field is a property the object does not have
RECURSIVE Values(_, _), Objects(_, _, _)
Values(type, n) ==
  IF type.kind = "enum"
    THEN {Number(definitionOf(type.name).fields[k].value) :
            k \in 1..Len(definitionOf(type.name).fields)}
  ELSE IF type.kind = "message"
    THEN Objects(definitionOf(type.name).fields, 1, n)
  ELSE IF type.name = "bool" THEN {Boolean(TRUE), Boolean(FALSE)}
  ELSE IF type.name = "string" THEN {StringOf(<<>>), StringOf(<<97>>)}
  ELSE IF type.name = "Array"
    THEN {ArrayOf(elems) :
            elems \in UNION {[1..k -> Values(type.args[1], n - 1)] : k \in 0..n}}
  ELSE IF type.name = "Nullable"
    THEN {Null} \cup Values(type.args[1], n)
  ELSE IF type.name = "Map"
    THEN {MapOf(entries) :
            entries \in UNION {
              {e \in [1..k -> Values(type.args[1], n - 1)
                                \X Values(type.args[2], n - 1)] :
                 \A i, j \in 1..k : i # j => e[i][1] # e[j][1]} : k \in 0..n}}
  ELSE {Number(i) : i \in 0..MaxNumber}

Objects(fields, k, n) ==
  IF k > Len(fields) THEN {EmptyObject}
  ELSE {put(o, <<".", fields[k].name>>, v) :
          o \in Objects(fields, k + 1, n), v \in Values(fields[k].type, n)}
       \cup (IF fields[k].optional THEN Objects(fields, k + 1, n) ELSE {})

CodecInit ==
  /\ \E type \in CodecTypes, strategy \in Strategies :
       \E value \in Values(type, MaxItems) :
         codec = [pc |-> "value", type |-> type, strategy |-> strategy,
                  value |-> value, bytes |-> <<>>, out |-> Undef, how |-> ""]
  /\ IdleAnalyzer
  /\ IdleParser
  /\ IdleTokenizer
  /\ IdleLsp

requestGenNode(strategy, type) == unwrapLen(typeToGenNode(strategy, type).node)

\* requestSerialize(value); emitted code that is not TypeScript serializes
\* nothing
RequestSerialize ==
  /\ codec.pc = "value"
  /\ \E w \in {IF declaresIdentifiers(codec.strategy,
                    requestGenNode(codec.strategy, codec.type), <<"value">>)
                 THEN serializeGenNode(codec.strategy,
                        requestGenNode(codec.strategy, codec.type),
                        <<"value">>, codec.value)
                 ELSE [how |-> "SyntaxError", bytes |-> <<>>]} :
       codec' = [codec EXCEPT !.pc = IF w.how = "" THEN "bytes" ELSE "done",
                              !.how = w.how, !.bytes = w.bytes]
  /\ UNCHANGED <<avars, pvars, tz, lsp>>

\* requestDeserialize(bytes): `let value: any; const end = reader.len;`
RequestDeserialize ==
  /\ codec.pc = "bytes"
  /\ \E r \in {deserializeGenNode(codec.strategy,
                 requestGenNode(codec.strategy, codec.type), codec.bytes,
                 Len(codec.bytes), [how |-> "", pos |-> 0, value |-> Undef])} :
       codec' = [codec EXCEPT !.pc = "done", !.how = r.how, !.out = r.value]
  /\ UNCHANGED <<avars, pvars, tz, lsp>>

CodecNext == RequestSerialize \/ RequestDeserialize

SpecCodec == CodecInit /\ [][CodecNext]_vars

(***************************************************************************)
(* C5: for every deeply-real type and both strategies, the emitted         *)
(* deserialize applied to the bytes of the emitted serialize returns a     *)
(* value structurally equal to the one serialized, for every valid value   *)
(* of the type (null and non-null Nullable values, empty and non-empty     *)
(* arrays and Maps, present and absent optional fields).                   *)
(***************************************************************************)
C5_RoundTrip ==
  codec.pc = "done" => (codec.how = "" /\ codec.out = codec.value)

(***************************************************************************)
(* A fresh compile: index.ts main() on a new analyzer, and nothing after   *)
(* it.                                                                     *)
(***************************************************************************)
CompileNext ==
  \E d \in [1..Len(Files) -> 0..Len(Sources)] :
    (\E k \in 1..Len(Files) : d[k] # 0) /\ Main(d)

SpecCompile == Init /\ [][CompileNext]_vars

\* main() has run to the end of analyze()
Compiled == last.op = "main" /\ threw = ""

\* the diagnostics raised on a token
C11_DiagnosticsOn(token) ==
  {n \in 1..Len(items) : items[n].file = token.file /\ items[n].at = token.at}

\* where, in SrcMonotonic, the explicit ordinals of b and of c are
C11_SecondOne ==
  CHOOSE i \in 1..Len(SrcMonotonic) :
    /\ SrcMonotonic[i] = Num(1)
    /\ \E j \in 1..(i - 1) : SrcMonotonic[j] = Num(1)

C11_ZeroOfC == CHOOSE i \in 1..Len(SrcMonotonic) : SrcMonotonic[i] = Num(0)

(***************************************************************************)
(* C11: when a field states an explicit ordinal n smaller than the counter *)
(* k, exactly one diagnostic is raised on the ordinal's numeric token      *)
(* ("must be greater than 0" when n < 1, otherwise "must be sequential");  *)
(* for `message M { int32 a = 1; int32 b = 1; ... }` the "must be          *)
(* sequential" diagnostic is raised on the `1` of b and on no other token. *)
(***************************************************************************)
C11_OrdinalBelowCounterDiagnosed ==
  Compiled =>
    \A k \in 1..Len(Files) :
      (docs[k] # 0 /\ Sources[docs[k]] = SrcMonotonic) =>
        /\ Cardinality(C11_DiagnosticsOn([file |-> Files[k], at |-> C11_SecondOne]))
             = 1
        /\ \A n \in 1..Len(items) :
             (/\ items[n].file = Files[k]
              /\ items[n].message = "Message field numbers must be sequential.")
               <=> items[n].at = C11_SecondOne
        /\ \A n \in 1..Len(items) :
             (/\ items[n].file = Files[k]
              /\ items[n].message = "Message field numbers must be greater than 0.")
               <=> items[n].at = C11_ZeroOfC

(***************************************************************************)
(* C12: in every message definition the analyzer holds, after any sequence *)
(* of analyzeASTNodes / analyze / removeDefinitionsFromFile calls, the     *)
(* stored field ordinals are strictly increasing in field order and each   *)
(* is at least 1.                                                          *)
(***************************************************************************)
C12_OrdinalsStrictlyIncreasing ==
  \A d \in 1..Len(definitions) :
    definitions[d].kind = "message" =>
      /\ \A f \in 1..Len(definitions[d].fields) :
           definitions[d].fields[f].ordinal >= 1
      /\ \A f \in 1..(Len(definitions[d].fields) - 1) :
           definitions[d].fields[f].ordinal
             < definitions[d].fields[f + 1].ordinal

\* the value of the counter when field k of the message node is reached
C13_CounterAt(node, k) ==
  1 + Cardinality({j \in 1..(k - 1) : node.fields[j].isComplete})

\* the "Unknown type" diagnostics raised on the type of a field
C13_UnknownTypeOn(field) ==
  {n \in 1..Len(items) :
     /\ items[n].file = field.type.identifier.tokens[1].file
     /\ items[n].at = field.type.identifier.tokens[1].at
     /\ items[n].message
          = "Unknown type " \o JoinValues(field.type.identifier.tokens)}

(***************************************************************************)
(* C13: a field whose type cannot be resolved produces exactly one         *)
(* unknown-type diagnostic and does not stop the analysis of the message:  *)
(* every field that resolves is stored, without a diagnostic, with the     *)
(* ordinal the counter had when it was reached, the counter having been    *)
(* incremented for every earlier field, resolved or not.                   *)
(***************************************************************************)
C13_UnknownTypeKeepsGoing ==
  Compiled =>
    \A d \in 1..Len(definitions) :
      definitions[d].kind = "message" =>
        \A k \in 1..Len(definitions[d].astNode.fields) :
          definitions[d].astNode.fields[k].isComplete =>
            IF \E f \in 1..Len(definitions[d].fields) :
                 definitions[d].fields[f].name
                   = definitions[d].astNode.fields[k].name.value
              THEN /\ C13_UnknownTypeOn(definitions[d].astNode.fields[k]) = {}
                   /\ \A f \in 1..Len(definitions[d].fields) :
                        definitions[d].fields[f].name
                          = definitions[d].astNode.fields[k].name.value
                        => definitions[d].fields[f].ordinal
                             = C13_CounterAt(definitions[d].astNode, k)
              ELSE Cardinality(
                     C13_UnknownTypeOn(definitions[d].astNode.fields[k])) = 1

\* `message M { Missing x; int32 y; }` compiled: one unknown-type diagnostic,
\* on Missing, and M holds the one field y, with the ordinal 2
C13_MissingThenResolved ==
  /\ Compiled
  /\ \E d \in 1..Len(definitions) :
       /\ definitions[d].kind = "message"
       /\ definitions[d].name = "M"
       /\ Len(definitions[d].astNode.fields) = 2
       /\ definitions[d].astNode.fields[1].type.identifier.tokens[1].value
            = "Missing"
       /\ Cardinality(C13_UnknownTypeOn(definitions[d].astNode.fields[1])) = 1
       /\ Cardinality({n \in 1..Len(items) :
                         /\ items[n].file = definitions[d].file
                         /\ items[n].message = "Unknown type Missing"}) = 1
       /\ Len(definitions[d].fields) = 1
       /\ definitions[d].fields[1].name = "y"
       /\ definitions[d].fields[1].ordinal = 2

\* the package a source states, "" when it states none
C14_PackageOf(src) == IF src[1] = Kw("package") THEN src[2].value ELSE ""

\* where a source defines a message, enum or service of the name
C14_DefinitionsOf(src, name) ==
  {i \in 1..(Len(src) - 1) :
     /\ src[i] \in {Kw("message"), Kw("enum"), Kw("service")}
     /\ src[i + 1] = Id(name)}

C14_NamesOf(src) ==
  {src[i + 1].value : i \in {j \in 1..(Len(src) - 1) :
      src[j] \in {Kw("message"), Kw("enum"), Kw("service")}}}

(***************************************************************************)
(* C14: within a package a name identifies at most one definition: when a  *)
(* second definition of a name already used in the package is analyzed, in *)
(* another file here, a global-scope redefinition diagnostic is raised on  *)
(* the second definition.                                                  *)
(***************************************************************************)
C14_RedefinitionDiagnosed ==
  (/\ Compiled
   /\ docs[1] # 0
   /\ docs[2] # 0
   /\ C14_PackageOf(Sources[docs[1]]) # ""
   /\ C14_PackageOf(Sources[docs[1]]) = C14_PackageOf(Sources[docs[2]])) =>
    \A name \in C14_NamesOf(Sources[docs[1]]) \cap C14_NamesOf(Sources[docs[2]]) :
      \E n \in 1..Len(items), i \in C14_DefinitionsOf(Sources[docs[2]], name) :
        /\ items[n].file = Files[2]
        /\ items[n].scope = "global"
        /\ items[n].at \in {i, i + 1}

\* the types that occur in a stored type, at any depth
RECURSIVE C15_TypesIn(_)
C15_TypesIn(t) ==
  IF t.typeKind # "real" THEN {t}
  ELSE {t} \cup UNION {C15_TypesIn(t.args[k]) : k \in 1..Len(t.args)}

\* the types stored in the message fields and RPC signatures
C15_StoredTypes ==
  UNION {UNION {C15_TypesIn(definitions[d].fields[k].type) :
                  k \in 1..Len(definitions[d].fields)} :
           d \in {e \in 1..Len(definitions) : definitions[e].kind = "message"}}
  \cup
  UNION {UNION {C15_TypesIn(definitions[d].rpcs[k].request.type)
                \cup C15_TypesIn(definitions[d].rpcs[k].response.type) :
                  k \in 1..Len(definitions[d].rpcs)} :
           d \in {e \in 1..Len(definitions) : definitions[e].kind = "service"}}

\* the number of formal parameters of the definition a Real type refers to
C15_FormalArity(t) ==
  IF t.kind = "builtin"
    THEN Len((CHOOSE b \in {builtinTypes[i] : i \in 1..Len(builtinTypes)} :
                b.name = t.name).args)
  ELSE IF t.kind = "message"
    THEN Len(definitions[targetOf(definitions, t)].args)
  ELSE 0

(***************************************************************************)
(* C15: every Real type instance stored in a message field or an RPC       *)
(* signature has exactly as many type arguments as its definition has      *)
(* formal parameters, definitions with rest-args excepted.                 *)
(***************************************************************************)
C15_StoredArityMatches ==
  Compiled =>
    \A t \in C15_StoredTypes :
      (t.typeKind = "real" /\ ~t.restArgs) => Len(t.args) = C15_FormalArity(t)

\* the request and response types of the stored RPCs
C16_SignatureTypes ==
  UNION {UNION {{definitions[d].rpcs[k].request.type,
                 definitions[d].rpcs[k].response.type} :
                  k \in 1..Len(definitions[d].rpcs)} :
           d \in {e \in 1..Len(definitions) : definitions[e].kind = "service"}}

C16_Builtin(name) ==
  [typeKind |-> "real", kind |-> "builtin", packageId |-> BUILTIN_PACKAGE,
   name |-> name, args |-> <<>>]

C16_PaginationOf(arg) ==
  [typeKind |-> "real", kind |-> "message", packageId |-> "a",
   name |-> "Pagination", args |-> <<arg>>]

\* the definitions of the example are the analyzed ones
C16_ExampleAnalyzed ==
  /\ Compiled
  /\ \E k \in 1..Len(Files) :
       /\ docs[k] # 0
       /\ Sources[docs[k]] = SrcPagination
       /\ \E d \in 1..Len(definitions) : definitions[d].file = Files[k]

(***************************************************************************)
(* C16: generic instance collection walks every RPC request and response   *)
(* type and recurses into the type arguments: every Real instance, at any  *)
(* depth, of a message with formal parameters has its argument tuple in    *)
(* the realization set of that message.  For                               *)
(* `rpc test(Response<Pagination<int32>, Date>) returns                    *)
(* (Pagination<string>)` the realization set of Pagination is              *)
(* {(int32), (string)} and that of Response is                             *)
(* {(Pagination<int32>, Date)}.                                            *)
(***************************************************************************)
C16_SignatureInstancesCollected ==
  Compiled =>
    /\ \A s \in C16_SignatureTypes : \A t \in C15_TypesIn(s) :
         (/\ t.typeKind = "real"
          /\ t.kind = "message"
          /\ Len(definitions[targetOf(definitions, t)].args) > 0)
           => StripArgs(t.args) \in realized(definitions[targetOf(definitions, t)])
    /\ C16_ExampleAnalyzed =>
         \A d \in 1..Len(definitions) :
           /\ definitions[d].name = "Pagination" =>
                realized(definitions[d]) =
                  {<<C16_Builtin("int32")>>, <<C16_Builtin("string")>>}
           /\ definitions[d].name = "Response" =>
                realized(definitions[d]) =
                  {<<C16_PaginationOf(C16_Builtin("int32")), C16_Builtin("Date")>>}

C16_NestedInstanceCollected ==
  /\ C16_ExampleAnalyzed
  /\ \E d \in 1..Len(definitions) :
       /\ definitions[d].name = "Pagination"
       /\ <<C16_Builtin("int32")>> \in realized(definitions[d])
  /\ \E d \in 1..Len(definitions) :
       /\ definitions[d].name = "Response"
       /\ Len(definitions[d].genericInstances) = 1

RECURSIVE C17_DeeplyReal(_)
C17_DeeplyReal(t) ==
  IF t.typeKind # "real" THEN FALSE
  ELSE \A k \in 1..Len(t.args) : C17_DeeplyReal(t.args[k])

(***************************************************************************)
(* C17: for every message M and every argument tuple A in the realization  *)
(* set of M, realizing M with A gives a field list in which every field    *)
(* type is deeply real (no Generic, Unknown or undefined type at any       *)
(* depth), and every field keeps its name, ordinal and optionality.        *)
(***************************************************************************)
C17_RealizedFieldsDeeplyReal ==
  Compiled =>
    \A d \in {e \in 1..Len(definitions) : definitions[e].kind = "message"} :
      \A n \in 1..Len(definitions[d].genericInstances) :
        \E m \in {realizeMessageDefinition(definitions[d],
                                           definitions[d].genericInstances[n])} :
          /\ Len(m.fields) = Len(definitions[d].fields)
          /\ \A k \in 1..Len(m.fields) :
               /\ m.fields[k].name = definitions[d].fields[k].name
               /\ m.fields[k].ordinal = definitions[d].fields[k].ordinal
               /\ m.fields[k].optional = definitions[d].fields[k].optional
               /\ C17_DeeplyReal(m.fields[k].type)

(***************************************************************************)
(* The DiagnosticCollection on its own (src/src/diagnostic.ts, lines       *)
(* 33-58): error() pushes a diagnostic, removeFileDiagnostics(file)        *)
(* filters the items.                                                      *)
(***************************************************************************)
MaxDiags == 3

\* the positions a diagnostic is raised at
DiagTokens == {[file |-> Files[k], at |-> n] : k \in 1..Len(Files), n \in 1..2}

Error(token, scope) ==
  /\ Len(items) < MaxDiags
  /\ items' = error(items, token, scope, "raw")
  /\ last' = [op |-> "error", file |-> token.file, before |-> items]
  /\ UNCHANGED <<definitions, heap, threw, docs, ops, codec, tz, lsp>>
  /\ UNCHANGED pvars

RemoveFileDiagnostics(file) ==
  /\ items' = removeFileDiagnostics(items, file)
  /\ last' = [op |-> "removeFileDiagnostics", file |-> file, before |-> items]
  /\ UNCHANGED <<definitions, heap, threw, docs, ops, codec, tz, lsp>>
  /\ UNCHANGED pvars

DiagNext ==
  \/ \E token \in DiagTokens, scope \in {"local", "global"} : Error(token, scope)
  \/ \E k \in 1..Len(Files) : RemoveFileDiagnostics(Files[k])

SpecDiag == Init /\ [][DiagNext]_vars

\* the diagnostics of s that are local and attached to another file than
\* file, in the order of s
RECURSIVE C18_LocalOfOthers(_, _)
C18_LocalOfOthers(s, file) ==
  IF s = <<>> THEN <<>>
  ELSE (IF Head(s).scope = "local" /\ Head(s).file # file
          THEN <<Head(s)>> ELSE <<>>)
       \o C18_LocalOfOthers(Tail(s), file)

(***************************************************************************)
(* C18: removeFileDiagnostics(f) drops exactly the local diagnostics of    *)
(* file f and every global diagnostic of any file; every local diagnostic  *)
(* of another file is kept, in its original order.                         *)
(***************************************************************************)
C18_RemoveFileDiagnosticsFrame ==
  last.op = "removeFileDiagnostics" =>
    /\ items = C18_LocalOfOthers(last.before, last.file)
    /\ \A n \in 1..Len(items) :
         items[n].scope = "local" /\ items[n].file # last.file

C18_DroppedAndKept ==
  /\ last.op = "removeFileDiagnostics"
  /\ Len(last.before) = MaxDiags
  /\ \E n \in 1..Len(last.before) :
       last.before[n].scope = "local" /\ last.before[n].file = last.file
  /\ \E n \in 1..Len(last.before) :
       last.before[n].scope = "global" /\ last.before[n].file # last.file
  /\ Len(items) = 1
  /\ items[1].scope = "local"
  /\ items[1].file # last.file

(***************************************************************************)
(* The tokenizer (src/src/tokenizer.ts).  A source text is a sequence of   *)
(* UTF-16 code units.  The units of the model: the letter "a", the digit   *)
(* "1", the whitespace " " and "\n", the carriage return "\r", the quote,  *)
(* the backslash, "/" and "*", the symbol ";", the code unit U+0000        *)
(* ("NUL"), and a high and a low surrogate ("hi", "lo"), which form one    *)
(* code point above 0xFFFF when the low one follows the high one.  A       *)
(* JavaScript string is the sequence of its code units, so `"\0"` is       *)
(* <<"NUL">> and `buffer += c` is concatenation.                           *)
(***************************************************************************)
Units == {"a", "1", " ", "\n", "\r", "\"", "\\", "/", "*", ";", "NUL", "hi", "lo"}

\* `source.codePointAt(i)` is above 0xFFFF
isAstralAt(source, i) ==
  i + 1 <= Len(source) /\ source[i] = "hi" /\ source[i + 1] = "lo"

\* `!codePoint`: codePointAt is undefined past the end, and 0 is falsy
noCodePointAt(source, i) == i > Len(source) \/ source[i] = "NUL"

NewTokenizer ==
  [currInd |-> 1, position |-> [line |-> 0, character |-> 0],
   savedPosition |-> Undefined]

\* Tokenizer.step, one iteration of its loop
TokenizerStepOne(source, t) ==
  [t EXCEPT
     !.position =
        IF t.currInd <= Len(source) /\ source[t.currInd] = "\n"
          THEN [line |-> @.line + 1, character |-> 0]
          ELSE [@ EXCEPT !.character =
                  @ + (IF isAstralAt(source, t.currInd) THEN 2 ELSE 1)],
     !.currInd = @ + (IF isAstralAt(source, t.currInd) THEN 2 ELSE 1)]

RECURSIVE TokenizerStep(_, _, _)
TokenizerStep(source, t, count) ==
  IF count = 0 THEN t
  ELSE TokenizerStep(source, TokenizerStepOne(source, t), count - 1)

\* Tokenizer.current: the loop that adds up realOffset, then the read
RECURSIVE realOffsetOf(_, _, _, _)
realOffsetOf(source, t, offset, realOffset) ==
  IF offset = 0 THEN realOffset
  ELSE IF noCodePointAt(source, t.currInd + realOffset) THEN -1
  ELSE realOffsetOf(source, t, offset - 1,
         realOffset + (IF isAstralAt(source, t.currInd + realOffset)
                         THEN 2 ELSE 1))

TokenizerCurrent(source, t, offset) ==
  With(realOffsetOf(source, t, offset, 0), LAMBDA realOffset :
    IF realOffset < 0 THEN <<"NUL">>
    ELSE IF noCodePointAt(source, t.currInd + realOffset) THEN <<"NUL">>
    ELSE IF isAstralAt(source, t.currInd + realOffset)
      THEN SubSeq(source, t.currInd + realOffset, t.currInd + realOffset + 1)
    ELSE <<source[t.currInd + realOffset]>>)

\* the functions take `char.charCodeAt(0)`
isLetter(char) == char[1] = "a"

isDigit(char) == char[1] = "1"

isWhitespace(char) == char \in {<<"\n">>, <<"\t">>, <<" ">>}

saveAt(t) == [t EXCEPT !.savedPosition = t.position]

\* Tokenizer.at: [t, at]
at(file, t) ==
  [t |-> [t EXCEPT !.savedPosition = Undefined],
   at |-> [file |-> file,
           start |-> IF t.savedPosition = Undefined THEN t.position
                     ELSE t.savedPosition,
           end |-> t.position]]

RECURSIVE skipWhitespace(_, _)
skipWhitespace(source, t) ==
  IF isWhitespace(TokenizerCurrent(source, t, 0))
    THEN skipWhitespace(source, TokenizerStep(source, t, 1))
    ELSE t

\* Tokenizer.takeUntilQuote, its loop: [t, value]
RECURSIVE takeUntilQuoteLoop(_, _, _, _)
takeUntilQuoteLoop(source, t, buffer, escaping) ==
  With(TokenizerCurrent(source, t, 0), LAMBDA c :
    IF c = <<"NUL">> THEN [t |-> t, value |-> buffer]
    ELSE IF escaping
      THEN takeUntilQuoteLoop(source, TokenizerStep(source, t, 1),
                              buffer \o c, FALSE)
    ELSE IF c = <<"\"">>
      THEN [t |-> TokenizerStep(source, t, 1), value |-> buffer]
    ELSE IF c = <<"\\">>
      \* `escaping = true; continue;`: no step
      THEN takeUntilQuoteLoop(source, t, buffer, TRUE)
    ELSE takeUntilQuoteLoop(source, TokenizerStep(source, t, 1),
                            buffer \o c, FALSE))

takeUntilQuote(source, t) == takeUntilQuoteLoop(source, t, <<>>, FALSE)

\* Tokenizer.takeUntil, its loop: [t, value]
RECURSIVE takeUntilLoop(_, _, _, _, _)
takeUntilLoop(source, t, str, buffer, matched) ==
  With(TokenizerCurrent(source, t, 0), LAMBDA c :
    IF c = <<"NUL">> THEN [t |-> t, value |-> buffer]
    ELSE With(IF c = <<str[matched + 1]>> THEN matched + 1 ELSE matched,
              LAMBDA m :
           IF m = Len(str)
             THEN [t |-> TokenizerStep(source, t, 1),
                   value |-> SubSeq(buffer \o c, 1, Len(buffer \o c) - m)]
             ELSE takeUntilLoop(source, TokenizerStep(source, t, 1), str,
                                buffer \o c, m)))

takeUntil(source, t, str) == takeUntilLoop(source, t, str, <<>>, 0)

RECURSIVE takeWordLoop(_, _, _)
takeWordLoop(source, t, buffer) ==
  With(TokenizerCurrent(source, t, 0), LAMBDA c :
    IF c = <<"_">> \/ isLetter(c) \/ isDigit(c)
      THEN takeWordLoop(source, TokenizerStep(source, t, 1), buffer \o c)
      ELSE [t |-> t, value |-> buffer])

takeWord(source, t) == takeWordLoop(source, t, <<>>)

RECURSIVE takeNumberLoop(_, _, _)
takeNumberLoop(source, t, buffer) ==
  With(TokenizerCurrent(source, t, 0), LAMBDA c :
    IF isDigit(c)
      THEN takeNumberLoop(source, TokenizerStep(source, t, 1), buffer \o c)
      ELSE [t |-> t, value |-> buffer])

takeNumber(source, t) == takeNumberLoop(source, t, <<>>)

KEYWORDS ==
  {<<"m", "e", "s", "s", "a", "g", "e">>, <<"e", "n", "u", "m">>,
   <<"s", "e", "r", "v", "i", "c", "e">>, <<"r", "p", "c">>,
   <<"s", "t", "r", "e", "a", "m">>, <<"r", "e", "t", "u", "r", "n", "s">>,
   <<"o", "p", "t", "i", "o", "n", "a", "l">>,
   <<"p", "a", "c", "k", "a", "g", "e">>}

SYMBOLS ==
  {<<"<">>, <<">">>, <<"(">>, <<")">>, <<";">>, <<"{">>, <<"}">>, <<"=">>,
   <<",">>, <<".">>}

\* `Number(value)` of a run of digits
RECURSIVE NumberOf(_)
NumberOf(digits) ==
  IF digits = <<>> THEN 0
  ELSE 10 * NumberOf(SubSeq(digits, 1, Len(digits) - 1))
       + (IF digits[Len(digits)] = "1" THEN 1 ELSE 0)

\* a token of the tokenizer: its type, its value and its range
TokenAt(tokenType, value, place) ==
  [tokenType |-> tokenType, value |-> value, file |-> place.file,
   start |-> place.start, end |-> place.end]

\* `source.replaceAll("\r", "")`
withoutCR(source) == SelectSeq(source, LAMBDA u : u # "\r")

\* the while loop of tokenize: [t, tokens]
RECURSIVE tokenizeLoop(_, _, _, _)
tokenizeLoop(file, source, t0, tokens) ==
  IF TokenizerCurrent(source, t0, 0) = <<"NUL">> THEN [t |-> t0, tokens |-> tokens]
  ELSE With(skipWhitespace(source, t0), LAMBDA t :
       With(TokenizerCurrent(source, t, 0), LAMBDA c :
         IF c = <<"NUL">> THEN [t |-> t, tokens |-> tokens]
         ELSE IF c = <<"\"">>
           THEN With(takeUntilQuote(source, TokenizerStep(source, saveAt(t), 1)),
                     LAMBDA r :
                  With(at(file, r.t), LAMBDA a :
                    tokenizeLoop(file, source, a.t,
                      Append(tokens, TokenAt("string-literal", r.value, a.at)))))
         ELSE IF isDigit(c)
           THEN With(takeNumber(source, saveAt(t)), LAMBDA r :
                  With(at(file, r.t), LAMBDA a :
                    tokenizeLoop(file, source, a.t,
                      Append(tokens, TokenAt("numeric-literal",
                                             NumberOf(r.value), a.at)))))
         ELSE IF c = <<"_">> \/ isLetter(c)
           THEN With(takeWord(source, saveAt(t)), LAMBDA r :
                  With(at(file, r.t), LAMBDA a :
                    tokenizeLoop(file, source, a.t,
                      Append(tokens, TokenAt("identifier", r.value, a.at)))))
         ELSE IF c = <<"/">> /\ TokenizerCurrent(source, t, 1) \in {<<"/">>, <<"*">>}
           THEN With(takeUntil(source, TokenizerStep(source, saveAt(t), 2),
                               IF TokenizerCurrent(source, t, 1) = <<"/">>
                                 THEN <<"\n">> ELSE <<"*", "/">>),
                     LAMBDA r :
                  With(at(file, r.t), LAMBDA a :
                    tokenizeLoop(file, source, a.t,
                      Append(tokens, TokenAt("comment", r.value, a.at)))))
         ELSE With(at(file, t), LAMBDA a :
                tokenizeLoop(file, source, TokenizerStep(source, a.t, 1),
                  Append(tokens, TokenAt("unknown", c, a.at))))))

\* the loop `for (const token of tokens)` of tokenize
retype(token) ==
  IF token.tokenType = "identifier" /\ token.value \in KEYWORDS
    THEN [token EXCEPT !.tokenType = "keyword"]
  ELSE IF token.tokenType = "unknown" /\ token.value \in SYMBOLS
    THEN [token EXCEPT !.tokenType = "symbol"]
  ELSE token

\* tokenize: [tokens, t, unknowns], unknowns being the tokens a diagnostic
\* `Uknown symbol` is raised on
tokenize(file, text) ==
  With(withoutCR(text), LAMBDA source :
  With(tokenizeLoop(file, source, NewTokenizer, <<>>), LAMBDA r :
    [tokens |-> [i \in 1..Len(r.tokens) |-> retype(r.tokens[i])]
                \o <<TokenAt("EOF", <<>>, at(file, r.t).at)>>,
     t |-> r.t,
     unknowns |-> SelectSeq(r.tokens, LAMBDA k :
                    k.tokenType = "unknown" /\ k.value \notin SYMBOLS)]))

\* a sequence of code units as one string
RECURSIVE JoinUnits(_)
JoinUnits(units) ==
  IF units = <<>> THEN "" ELSE Head(units) \o JoinUnits(Tail(units))

MaxText == 4

\* the texts of at most n code units
RECURSIVE Texts(_)
Texts(n) ==
  IF n = 0 THEN {<<>>}
  ELSE Texts(n - 1)
       \cup {Append(s, u) : s \in {x \in Texts(n - 1) : Len(x) = n - 1},
                            u \in Units}

TokenizeInit ==
  /\ tz \in {[pc |-> "text", text |-> text] : text \in Texts(MaxText)}
  /\ IdleAnalyzer
  /\ IdleParser
  /\ IdleCodec
  /\ IdleLsp

Tokenize ==
  /\ tz.pc = "text"
  /\ \E r \in {tokenize(Files[1], tz.text)} :
       /\ tz' = [pc |-> "done", text |-> tz.text, tokens |-> r.tokens,
                 currInd |-> r.t.currInd]
       /\ items' = items \o
            [i \in 1..Len(r.unknowns) |->
               Diag([file |-> Files[1], at |-> r.unknowns[i].start],
                    ScopeOf("unknown-symbol"),
                    "Uknown symbol " \o JoinUnits(r.unknowns[i].value))]
  /\ last' = [op |-> "tokenize", file |-> Files[1]]
  /\ UNCHANGED <<definitions, heap, threw, docs, ops, codec, lsp>>
  /\ UNCHANGED pvars

SpecTokenize == TokenizeInit /\ [][Tokenize]_vars

\* the position after the text s: its number of line feeds, and the number
\* of code units after the last one
FinalPosition(s) ==
  [line |-> Cardinality({i \in 1..Len(s) : s[i] = "\n"}),
   character |-> Cardinality({i \in 1..Len(s) :
                                \A j \in i..Len(s) : s[j] # "\n"})]

(***************************************************************************)
(* C19: for every input text, tokenize returns a token list whose last     *)
(* element is an EOF token located at the final position of the input, EOF *)
(* occurs nowhere else in the list, and every character of the input has   *)
(* been consumed.  The input is the text with its carriage returns         *)
(* removed.                                                                *)
(***************************************************************************)
C19_EndsWithEOFAtTheEnd ==
  tz.pc = "done" =>
    /\ tz.tokens[Len(tz.tokens)].tokenType = "EOF"
    /\ tz.tokens[Len(tz.tokens)].start = FinalPosition(withoutCR(tz.text))
    /\ tz.tokens[Len(tz.tokens)].end = FinalPosition(withoutCR(tz.text))
    /\ \A i \in 1..(Len(tz.tokens) - 1) : tz.tokens[i].tokenType # "EOF"
    /\ tz.currInd = Len(withoutCR(tz.text)) + 1

\* the index after a string literal whose content starts at index i: after
\* the first quote that no backslash escapes, or the end of the input
RECURSIVE C20_LiteralEnd(_, _)
C20_LiteralEnd(s, i) ==
  IF i > Len(s) THEN Len(s) + 1
  ELSE IF s[i] = "\"" THEN i + 1
  ELSE IF s[i] = "\\" THEN C20_LiteralEnd(s, i + 2)
  ELSE C20_LiteralEnd(s, i + 1)

\* the content of the literal from index i on: as it is written
\* (keep = TRUE), or without the escaping backslashes (keep = FALSE)
RECURSIVE C20_Content(_, _, _)
C20_Content(s, i, keep) ==
  IF i > Len(s) \/ s[i] = "\"" THEN <<>>
  ELSE IF s[i] = "\\"
    THEN (IF keep THEN <<s[i]>> ELSE <<>>)
         \o (IF i + 1 <= Len(s) THEN <<s[i + 1]>> ELSE <<>>)
         \o C20_Content(s, i + 2, keep)
  ELSE <<s[i]>> \o C20_Content(s, i + 1, keep)

(***************************************************************************)
(* C20: inside a double-quoted string literal a backslash escapes the next *)
(* code unit: the unit after the backslash is taken into the literal and   *)
(* does not end it even when it is a quote, so the literal ends at the     *)
(* first quote that is not escaped, or at the end of the input.  Stated    *)
(* for a text that opens with a quote and holds no U+0000; the value may   *)
(* keep the escaping backslashes or not.                                   *)
(***************************************************************************)
C20_BackslashEscapesNextUnit ==
  (/\ tz.pc = "done"
   /\ withoutCR(tz.text) # <<>>
   /\ withoutCR(tz.text)[1] = "\""
   /\ \A i \in 1..Len(tz.text) : tz.text[i] # "NUL") =>
    \E s \in {withoutCR(tz.text)} :
      /\ tz.tokens[1].tokenType = "string-literal"
      /\ tz.tokens[1].start = [line |-> 0, character |-> 0]
      /\ tz.tokens[1].end =
           FinalPosition(SubSeq(s, 1, C20_LiteralEnd(s, 2) - 1))
      /\ tz.tokens[1].value \in {C20_Content(s, 2, TRUE),
                                 C20_Content(s, 2, FALSE)}

(***************************************************************************)
(* Comments: tokenize on the texts made of "/", "*", a letter and a line   *)
(* feed.                                                                   *)
(***************************************************************************)
MaxComment == 6

CommentUnits == {"/", "*", "a", "\n"}

RECURSIVE CommentTexts(_)
CommentTexts(n) ==
  IF n = 0 THEN {<<>>}
  ELSE CommentTexts(n - 1)
       \cup {Append(s, u) : s \in {x \in CommentTexts(n - 1) : Len(x) = n - 1},
                            u \in CommentUnits}

CommentInit ==
  /\ tz \in {[pc |-> "text", text |-> text] : text \in CommentTexts(MaxComment)}
  /\ IdleAnalyzer
  /\ IdleParser
  /\ IdleCodec
  /\ IdleLsp

SpecComments == CommentInit /\ [][Tokenize]_vars

\* the index after the comment whose content starts at index i and that
\* ends with the adjacent units `close`, or the end of the input
RECURSIVE C21_CommentEnd(_, _, _)
C21_CommentEnd(s, i, close) ==
  IF i + Len(close) - 1 > Len(s) THEN Len(s) + 1
  ELSE IF SubSeq(s, i, i + Len(close) - 1) = close THEN i + Len(close)
  ELSE C21_CommentEnd(s, i + 1, close)

\* the types and values of the tokens from the k-th on
C21_Kinds(tokens, k) ==
  [i \in 1..(Len(tokens) - k + 1) |->
     [tokenType |-> tokens[i + k - 1].tokenType,
      value |-> tokens[i + k - 1].value]]

\* the text opens with the comment opener `open`, closed by `close`: one
\* comment token up to the first `close`, then the tokens of the rest
C21_OneCommentThenTheRest(s, tokens, close) ==
  \E e \in {C21_CommentEnd(s, 3, close)} :
    /\ tokens[1].tokenType = "comment"
    /\ tokens[1].start = [line |-> 0, character |-> 0]
    /\ tokens[1].end = FinalPosition(SubSeq(s, 1, e - 1))
    /\ C21_Kinds(tokens, 2)
         = C21_Kinds(tokenize(Files[1], SubSeq(s, e, Len(s))).tokens, 1)

(***************************************************************************)
(* C21: a block comment opened by the two units slash, star extends to the *)
(* first later occurrence of the adjacent units star, slash (or to the end *)
(* of the input), a line comment opened by two slashes extends to the next *)
(* line feed; each yields exactly one comment token, and the text after    *)
(* the end of the comment is tokenized normally.                           *)
(***************************************************************************)
C21_CommentExtent ==
  (tz.pc = "done" /\ Len(tz.text) >= 2 /\ tz.text[1] = "/") =>
    /\ tz.text[2] = "*" =>
         C21_OneCommentThenTheRest(tz.text, tz.tokens, <<"*", "/">>)
    /\ tz.text[2] = "/" =>
         C21_OneCommentThenTheRest(tz.text, tz.tokens, <<"\n">>)

(***************************************************************************)
(* The tokens an AST node holds, in the order of the source text           *)
(* (src/src/parser.ts, the node interfaces of lines 399-602).  An absent   *)
(* token (undefined) and the placeholder ERROR_TOKEN are not tokens of the *)
(* stream.                                                                 *)
(***************************************************************************)
C22_Held(tok) ==
  IF tok.tokenType = "undefined" \/ tok = ERROR_TOKEN THEN <<>> ELSE <<tok>>

RECURSIVE C22_Flatten(_)
C22_Flatten(seqs) ==
  IF seqs = <<>> THEN <<>> ELSE Head(seqs) \o C22_Flatten(Tail(seqs))

RECURSIVE C22_TypeTokens(_)
C22_TypeTokens(t) ==
  t.identifier.tokens
  \o C22_Flatten([k \in 1..Len(t.args) |-> C22_TypeTokens(t.args[k])])

C22_ValueTokens(v) ==
  IF v.present THEN C22_Held(v.equals) \o C22_Held(v.value) ELSE <<>>

C22_MessageFieldTokens(f) ==
  C22_Held(f.optional) \o C22_TypeTokens(f.type) \o C22_Held(f.name)
  \o C22_ValueTokens(f.ordinal)

C22_EnumFieldTokens(f) == C22_Held(f.name) \o C22_ValueTokens(f.value)

C22_RPCTokens(r) ==
  C22_Held(r.rpcKeyword) \o C22_Held(r.name) \o C22_Held(r.requestStream)
  \o C22_TypeTokens(r.requestType) \o C22_Held(r.returnsKeyword)
  \o C22_Held(r.responseStream) \o C22_TypeTokens(r.responseType)

C22_NodeTokens(node) ==
  CASE node.kind = "package" ->
         C22_Held(node.keyword) \o node.identifier.tokens
    [] node.kind = "message" ->
         C22_Held(node.keyword) \o C22_TypeTokens(node.type)
         \o C22_Flatten([k \in 1..Len(node.fields) |->
                           C22_MessageFieldTokens(node.fields[k])])
    [] node.kind = "enum" ->
         C22_Held(node.keyword) \o C22_Held(node.name)
         \o C22_Flatten([k \in 1..Len(node.fields) |->
                           C22_EnumFieldTokens(node.fields[k])])
    [] node.kind = "string-enum" ->
         C22_Held(node.stringKeyword) \o C22_Held(node.enumKeyword)
         \o C22_Held(node.name)
         \o C22_Flatten([k \in 1..Len(node.fields) |->
                           C22_Held(node.fields[k])])
    [] node.kind = "service" ->
         C22_Held(node.keyword) \o C22_Held(node.name)
         \o C22_Flatten([k \in 1..Len(node.rpcs) |->
                           C22_RPCTokens(node.rpcs[k])])

(***************************************************************************)
(* C22: for any token stream T, concatenating in order the tokens held by  *)
(* the AST nodes that parse(T) returns reproduces T with the comments (and *)
(* the final EOF) removed: no token is dropped, duplicated or reordered.   *)
(***************************************************************************)
C22_ASTReproducesStream ==
  ppc = "done" =>
    C22_Flatten([k \in 1..Len(pnodes) |-> C22_NodeTokens(pnodes[k])])
      = SelectSeq(SubSeq(ptoks, 1, Len(ptoks) - 1), notComment)

\* the complete fields of an enum node, in declaration order
C23_CompleteFields(node) == SelectSeq(node.fields, LAMBDA f : f.isComplete)

(***************************************************************************)
(* C23: for the complete fields of an enum, in declaration order, each     *)
(* field's value is its explicit value when one is given and otherwise the *)
(* previous field's value plus one (0 for the first field); two fields     *)
(* with the same value raise no diagnostic.                                *)
(* `enum TestEnum { A = 0, B = 4, C = 4 }` yields three fields with the    *)
(* values 0, 4, 4 and no errors.                                           *)
(***************************************************************************)
C23_EnumValues ==
  Compiled =>
    /\ \A d \in {e \in 1..Len(definitions) : definitions[e].kind = "enum"} :
         \E fields \in {C23_CompleteFields(definitions[d].astNode)} :
           /\ Len(definitions[d].fields) = Len(fields)
           /\ \A k \in 1..Len(fields) :
                /\ definitions[d].fields[k].name = fields[k].name.value
                /\ definitions[d].fields[k].value =
                     IF fields[k].value.present THEN fields[k].value.value.num
                     ELSE IF k = 1 THEN 0
                     ELSE definitions[d].fields[k - 1].value + 1
    /\ (\A k \in 1..Len(Files) :
          docs[k] = 0 \/ Sources[docs[k]] = SrcTestEnum) => items = <<>>

C23_TestEnumStored ==
  /\ Compiled
  /\ items = <<>>
  /\ \E d \in 1..Len(definitions) :
       /\ definitions[d].name = "TestEnum"
       /\ definitions[d].fields =
            <<[name |-> "A", value |-> 0], [name |-> "B", value |-> 4],
              [name |-> "C", value |-> 4]>>
  /\ \E d \in 1..Len(definitions) :
       /\ definitions[d].name = "Plain"
       /\ definitions[d].fields =
            <<[name |-> "X", value |-> 0], [name |-> "Y", value |-> 2],
              [name |-> "Z", value |-> 3]>>

\* the type is Array<U> with U itself an Array
C24_IsNestedArray(type) ==
  /\ type.kind = "builtin"
  /\ type.name = "Array"
  /\ type.args[1].kind = "builtin"
  /\ type.args[1].name = "Array"

(***************************************************************************)
(* C24: under strategy native the GenIR built for Array<U>, U itself an    *)
(* Array, wraps each inner array in a one-field struct whose field 1 (wire *)
(* type LEN) holds the nested array; under strategy evolved no wrapper is  *)
(* inserted.                                                               *)
(***************************************************************************)
C24_NestedArrayWrappedUnderNative ==
  (codec.pc # "idle" /\ C24_IsNestedArray(codec.type)) =>
    \E g \in {typeToGenNode(codec.strategy, codec.type).node},
       inner \in {typeToGenNode(codec.strategy, codec.type.args[1]).node} :
      IF codec.strategy = "native"
        THEN /\ g.type = "len"
             /\ g.sub.type = "array"
             /\ g.sub.sub.type = "len"
             /\ g.sub.sub.sub.type = "struct"
             /\ Len(g.sub.sub.sub.fields) = 1
             /\ g.sub.sub.sub.fields[1].ordinal = 1
             /\ g.sub.sub.sub.fields[1].wireType = 2
             /\ g.sub.sub.sub.fields[1].node = inner
        ELSE g = arrayNode(inner)

\* the Nullable fields of a message type
C25_NullableFields(type) ==
  IF type.kind # "message" THEN {}
  ELSE {k \in 1..Len(definitionOf(type.name).fields) :
          /\ definitionOf(type.name).fields[k].type.kind = "builtin"
          /\ definitionOf(type.name).fields[k].type.name = "Nullable"}

(***************************************************************************)
(* C25: under strategy evolved Nullable<U> is lowered to                   *)
(* Len(Nullable(sub(U))): the discriminant and the optional payload are    *)
(* enclosed in one length-delimited frame, for a Nullable type as for the  *)
(* Nullable field of a message, whose tag carries wire type LEN.           *)
(***************************************************************************)
C25_EvolvedNullableIsFramed ==
  (codec.pc # "idle" /\ codec.strategy = "evolved") =>
    /\ (codec.type.kind = "builtin" /\ codec.type.name = "Nullable") =>
         typeToGenNode("evolved", codec.type).node =
           lenNode(nullableNode(
             typeToGenNode("evolved", codec.type.args[1]).node))
    /\ \A k \in C25_NullableFields(codec.type) :
         \E f \in {messageGenNode("evolved",
                                  definitionOf(codec.type.name)).fields[k]} :
           /\ f.wireType = 2
           /\ f.node.type = "len"
           /\ f.node.sub.type = "nullable"

\* the definitions held for a file: their kinds and names
C27_Held(defs, file) ==
  {[kind |-> defs[d].kind, name |-> defs[d].name] :
     d \in {e \in 1..Len(defs) : defs[e].file = file}}

\* the fileset that holds only file k of the compiled one
C27_Only(k) == [j \in 1..Len(Files) |-> IF j = k THEN docs[k] ELSE 0]

(***************************************************************************)
(* C27: analyzeASTNodes(file, ast) adds only definitions of `file` and     *)
(* leaves the definitions created for every other file as they are, so     *)
(* after it was called for each file in turn, as main does, the analyzer   *)
(* holds the definitions of all files: for every file those that compiling *)
(* the file alone creates.                                                 *)
(***************************************************************************)
C27_DefinitionsOfAllFilesHeld ==
  (Compiled /\ \A k \in 1..Len(Files) : docs[k] # 0) =>
    \A k \in 1..Len(Files) :
      C27_Held(definitions, Files[k])
        = C27_Held(main(contentsOf(C27_Only(k))).defs, Files[k])

(***************************************************************************)
(* The language server (src/src/lsp/diagnostics.ts, lines 53-99, and the   *)
(* same functions in src/src/lsp.ts, lines 244-289), one statement of      *)
(* loadDocument per step.  Node runs a callback to its end before it       *)
(* starts the next one, so initializeWorkspace, a readFile callback and    *)
(* documentChanged start only when no handler is running.  lsp.pc is the   *)
(* statement of loadDocument that runs next, lsp.trace the statements the  *)
(* running (or last) loadDocument has run.                                 *)
(***************************************************************************)
MaxEvents == 3

\* a loadDocument that publishes before the global analyze has run
loadDocumentStatementsPublishFirst ==
  <<"removeFileDiagnostics", "removeDefinitionsFromFile", "parse",
    "analyzeASTNodes", "sendDiagnostics", "analyze">>

\* the statements of loadDocument, in the order of its body
loadDocumentStatements ==
  <<"removeFileDiagnostics", "removeDefinitionsFromFile", "parse",
    "analyzeASTNodes", "analyze", "sendDiagnostics">>

\* the statement after the one named, "idle" after the last
statementAfter(statement) ==
  With(CHOOSE i \in 1..Len(loadDocumentStatements) :
         loadDocumentStatements[i] = statement, LAMBDA i :
    IF i = Len(loadDocumentStatements) THEN "idle"
    ELSE loadDocumentStatements[i + 1])

IndexOfSource(src) == CHOOSE i \in 1..Len(Sources) : Sources[i] = src

\* what the files of the workspace folder hold on disk
Disk == <<IndexOfSource(SrcFruit), IndexOfSource(SrcMissing)>>

\* what the editor may deliver for a file
EditorContents ==
  {IndexOfSource(SrcFruit), IndexOfSource(SrcMissing), IndexOfSource(SrcStray)}

\* loadDocument is entered
enter(k, c) ==
  [lsp EXCEPT !.pc = loadDocumentStatements[1], !.uri = Files[k],
              !.content = c, !.nodes = <<>>, !.trace = <<>>]

\* a statement of loadDocument ran: on to the next one, or the exception
\* it threw (or process.exit) ends the handler
ran(statement, failed) ==
  [lsp EXCEPT !.pc = IF failed THEN "dead" ELSE statementAfter(statement),
              !.trace = Append(@, statement)]

\* initializeWorkspace(uri): `folder` is the set of files under uri
InitializeWorkspace(folder) ==
  /\ lsp.pc = "idle"
  /\ ops < MaxEvents
  /\ definitions' = <<>>
  /\ items' = <<>>
  /\ docs' = [k \in 1..Len(Files) |-> 0]
  /\ lsp' = [lsp EXCEPT
               !.pending = @ \cup {[file |-> k, content |-> Disk[k],
                                    epoch |-> lsp.epoch + 1] : k \in folder},
               !.workspace = folder, !.epoch = @ + 1, !.trace = <<>>,
               !.edited = [k \in 1..Len(Files) |-> 0]]
  /\ last' = [op |-> "initializeWorkspace", file |-> ""]
  /\ ops' = ops + 1
  /\ UNCHANGED <<heap, threw, pvars, codec, tz>>

\* the callback of fs.readFile
ReadCompleted(read) ==
  /\ lsp.pc = "idle"
  /\ read \in lsp.pending
  /\ lsp' = [enter(read.file, read.content) EXCEPT !.pending = @ \ {read}]
  /\ last' = [op |-> "readFile", file |-> Files[read.file]]
  /\ UNCHANGED <<definitions, items, heap, threw, docs, ops, pvars, codec, tz>>

\* documentChanged(change)
DocumentChanged(k, c) ==
  /\ lsp.pc = "idle"
  /\ ops < MaxEvents
  /\ lsp' = [enter(k, c) EXCEPT !.edited[k] = c]
  /\ last' = [op |-> "documentChanged", file |-> Files[k]]
  /\ ops' = ops + 1
  /\ UNCHANGED <<definitions, items, heap, threw, docs, pvars, codec, tz>>

\* diagnostics.removeFileDiagnostics(uri)
LoadRemoveFileDiagnostics ==
  /\ lsp.pc = "removeFileDiagnostics"
  /\ items' = removeFileDiagnostics(items, lsp.uri)
  /\ lsp' = ran("removeFileDiagnostics", FALSE)
  /\ UNCHANGED <<definitions, heap, threw, docs, last, ops, pvars, codec, tz>>

\* analyzer.removeDefinitionsFromFile(uri)
LoadRemoveDefinitionsFromFile ==
  /\ lsp.pc = "removeDefinitionsFromFile"
  /\ definitions' = removeDefinitionsFromFile(definitions, lsp.uri)
  /\ lsp' = ran("removeDefinitionsFromFile", FALSE)
  /\ UNCHANGED <<items, heap, threw, docs, last, ops, pvars, codec, tz>>

\* const nodes = parse(tokenize(uri, content, diagnostics), diagnostics)
LoadParse ==
  /\ lsp.pc = "parse"
  /\ \E r \in {parseInto(analyzerState, lsp.uri, Sources[lsp.content])} :
       /\ becomes(r.a)
       /\ lsp' = [ran("parse", r.a.threw # "") EXCEPT !.nodes = r.nodes]
  /\ UNCHANGED <<docs, last, ops, pvars, codec, tz>>

\* analyzer.analyzeASTNodes(uri, nodes)
LoadAnalyzeASTNodes ==
  /\ lsp.pc = "analyzeASTNodes"
  /\ \E a \in {analyzeASTNodes(lsp.uri, lsp.nodes, analyzerState)} :
       /\ becomes(a)
       /\ lsp' = ran("analyzeASTNodes", a.threw # "")
  /\ docs' = [k \in 1..Len(Files) |->
                IF Files[k] = lsp.uri THEN lsp.content ELSE docs[k]]
  /\ UNCHANGED <<last, ops, pvars, codec, tz>>

\* analyzer.analyze()
LoadAnalyze ==
  /\ lsp.pc = "analyze"
  /\ \E a \in {analyze(analyzerState)} :
       /\ becomes(a)
       /\ lsp' = ran("analyze", a.threw # "")
  /\ UNCHANGED <<docs, last, ops, pvars, codec, tz>>

\* sendDiagnostics(lspContext, new Set(analyzer.definitions.map(...)))
LoadSendDiagnostics ==
  /\ lsp.pc = "sendDiagnostics"
  /\ lsp' = [ran("sendDiagnostics", FALSE) EXCEPT
               !.published = sendDiagnostics(definitions, items, @)]
  /\ UNCHANGED <<definitions, items, heap, threw, docs, last, ops, pvars,
                 codec, tz>>

LspNext ==
  \/ \E folder \in SUBSET (1..Len(Files)) : InitializeWorkspace(folder)
  \/ \E read \in lsp.pending : ReadCompleted(read)
  \/ \E k \in 1..Len(Files), c \in EditorContents : DocumentChanged(k, c)
  \/ LoadRemoveFileDiagnostics
  \/ LoadRemoveDefinitionsFromFile
  \/ LoadParse
  \/ LoadAnalyzeASTNodes
  \/ LoadAnalyze
  \/ LoadSendDiagnostics

SpecLsp == Init /\ [][LspNext]_vars

\* C26: loadDocument invalidates the file (its diagnostics, then its
\* definitions), parses it, analyzes its nodes, runs the global analyze and
\* only then publishes; nothing is published from the invalidation to the
\* end of the global analyze, and no other change starts in between.
C26_Order ==
  <<"removeFileDiagnostics", "removeDefinitionsFromFile", "parse",
    "analyzeASTNodes", "analyze", "sendDiagnostics">>

C26_InOrder ==
  /\ Len(lsp.trace) <= Len(C26_Order)
  /\ lsp.trace = SubSeq(C26_Order, 1, Len(lsp.trace))

C26_Step ==
  /\ lsp'.published # lsp.published =>
       lsp.trace = SubSeq(C26_Order, 1, Len(C26_Order) - 1)
  /\ lsp.pc \notin {"idle", "dead"} =>
       /\ lsp'.uri = lsp.uri
       /\ lsp'.content = lsp.content
       /\ lsp'.edited = lsp.edited
       /\ lsp'.pending = lsp.pending
       /\ lsp'.epoch = lsp.epoch
       /\ ops' = ops

C26_InvalidateAnalyzePublish == []C26_InOrder /\ [][C26_Step]_vars

C26_Published ==
  /\ lsp.pc = "idle"
  /\ lsp.trace = C26_Order
  /\ \E k \in 1..Len(Files) :
       /\ Files[k] = lsp.uri
       /\ lsp.published[k] # <<>>
       /\ lsp.published[k] = fileDiagnostics(items, Files[k])

\* C28: however the initial reads, the document changes and a new
\* initializeWorkspace are ordered, once no read is pending the analyzer
\* holds, of each file, the content delivered last, and holds files of
\* the current workspace (or edited since) only.
C28_LatestContentHeld ==
  (lsp.pc = "idle" /\ lsp.pending = {}) =>
    \A k \in 1..Len(Files) :
      /\ lsp.edited[k] # 0 => docs[k] = lsp.edited[k]
      /\ docs[k] # 0 => (k \in lsp.workspace \/ lsp.edited[k] # 0)

\* C29: after a document change has been processed the diagnostics
\* published for every file are the diagnostics held for that file, the
\* empty list when none is held.
C29_PublishedAreHeld ==
  (lsp.pc = "idle" /\ lsp.trace = C26_Order) =>
    \A k \in 1..Len(Files) :
      lsp.published[k] = fileDiagnostics(items, Files[k])

\* C30: the emitted writer of bool writes 1 for true and 0 for false,
\* the emitted reader reads the byte back with `!!`: true and false are
\* different bytes on the wire and each is read back unchanged.
C30_BoolBytes ==
  (codec.type = Builtin("bool", <<>>) /\ codec.pc # "value") =>
    /\ codec.how = ""
    /\ codec.bytes = <<IF codec.value.b THEN 1 ELSE 0>>
    /\ codec.pc = "done" => codec.out = codec.value

====
